---- MODULE Spec2Model ----
(***************************************************************************)
(* A model of the Vi compiler: the lexer (src/parser.py tokenize), the    *)
(* import resolver (resolve_imports), the container-body parser, and the  *)
(* analysis and emission passes of DartCodegen                            *)
(* (src/codegen/dart_codegen.py).                                         *)
(*                                                                         *)
(* Text is a sequence of lines, a line a sequence of one-character        *)
(* strings.  Python dicts are TLA+ functions whose DOMAIN is the key set. *)
(* Emitted Dart is kept as a sequence of structured lines (tuples naming  *)
(* the construct and its parts) instead of formatted text.                *)
(***************************************************************************)
EXTENDS Integers, Sequences, FiniteSets, TLC

VARIABLES
    \* ---- lexer (tokenize) ----
    source,          \* the source text handed to tokenize: a sequence of lines
    lines,           \* the lines after comment stripping
    line_map,        \* stripped line number -> original line number
    line_num,        \* number of lines the for-loop has consumed
    indent_stack,    \* the stack of active indentation widths
    tokens,          \* the token stream built so far
    lex_pc,          \* "idle" | "start" | "loop" | "done" | "stripped_twice"
    \* ---- Parser.parse and resolve_imports ----
    fs,              \* the files an import can name: status and parsed Program
    parsed,          \* the Program parse() returned for the root file
    call_stack,      \* the active resolve_imports calls, innermost last
    swallowed,       \* the exceptions `except: pass` has caught so far
    skipped,         \* the listed names found in none of the three mappings
    program,         \* the Program resolve_imports returned, once it has
    tree,            \* Parser.tree: what generate(ast) built
    imp_pc,          \* "idle" | "parsed" | "resolving" | "resolved" | "returned",
                     \* or the exception Parser.parse died of
    \* ---- DartCodegen ----
    self_ast,              \* self.ast
    repeated_containers,   \* container -> [rows, cols, count]
    param_container_map,   \* function -> (parameter -> container)
    modified_containers,   \* container -> set of attributes
    called_by_functions,   \* the functions marked internal
    current_func,          \* function being generated, None outside
    local_vars_declared,   \* function -> names declared so far
    cell_var_map,          \* loop variable -> [c, idx]
    in_repeat_context,     \* inside generate_cell_widget
    dart,                  \* the emitted class: variables, state lists,
                           \* functions, build
    func_i,                \* next function of the loop in generate_app_widget
    cg_pc                  \* "idle" | "analyzed" | "functions" | "done",
                           \* or the exception generate_full_app died of

lexVars == <<source, lines, line_map, line_num, indent_stack, tokens, lex_pc>>

impVars == <<fs, parsed, call_stack, swallowed, skipped, program, tree, imp_pc>>

analysisVars == <<repeated_containers, param_container_map, modified_containers,
                  called_by_functions>>

cgVars == <<self_ast, analysisVars, current_func, local_vars_declared, cell_var_map,
            in_repeat_context, dart, func_i, cg_pc>>

vars == <<lexVars, impVars, cgVars>>

(***************************************************************************)
(* Bounds of the model.                                                    *)
(***************************************************************************)
MaxLines == 3
MaxIndent == 2
MaxDecls == 1
MaxImports == 1
RecursionLimit == 4
MaxNest == 2
MaxDim == 3
MaxChars == 6
MaxTail == 2
MaxCycle == 2

(***************************************************************************)
(* Generic helpers.                                                        *)
(***************************************************************************)
\* None, and the empty dict, are the empty sequence.
None == <<>>

\* items = '*'
Wildcard == <<"*">>

Range(s) == {s[i] : i \in 1..Len(s)}

Min(a, b) == IF a <= b THEN a ELSE b

RECURSIVE Spaces(_)
Spaces(n) == IF n = 0 THEN <<>> ELSE <<" ">> \o Spaces(n - 1)

SeqsUpTo(S, n) == UNION {[1..k -> S] : k \in 0..n}

(***************************************************************************)
(* LEXER: remove_comments_with_lines                                       *)
(***************************************************************************)
\* Python `a + b in line` for a two-character marker.
HasMarker(line, a, b) ==
    \E i \in 1..(Len(line) - 1) : line[i] = a /\ line[i + 1] = b

\* Position of the first marker a b at or after position `from`, 0 if none.
FindMarker(line, a, b, from) ==
    LET hits == {i \in from..(Len(line) - 1) : line[i] = a /\ line[i + 1] = b}
    IN  IF hits = {} THEN 0 ELSE CHOOSE i \in hits : \A j \in hits : i <= j

\* re.sub(r'<#.*?#>', '', line): leftmost, non-greedy, repeated.
RECURSIVE StripInline(_)
StripInline(line) ==
    LET open == FindMarker(line, "<", "#", 1)
        close == IF open = 0 THEN 0 ELSE FindMarker(line, "#", ">", open + 2)
    IN  IF open = 0 \/ close = 0
        THEN line
        ELSE SubSeq(line, 1, open - 1)
                 \o StripInline(SubSeq(line, close + 2, Len(line)))

\* First index j >= from with '#>' in ls[j]; Len(ls) + 1 if there is none.
RECURSIVE CommentEnd(_, _)
CommentEnd(ls, j) ==
    IF j > Len(ls) THEN j
    ELSE IF HasMarker(ls[j], "#", ">") THEN j
    ELSE CommentEnd(ls, j + 1)

\* Mutant: the lines of a multi-line comment are dropped from the text.
RECURSIVE StripFrom_Dropping(_, _)
StripFrom_Dropping(ls, i) ==
    IF i > Len(ls) THEN <<>>
    ELSE IF HasMarker(ls[i], "<", "#") /\ ~HasMarker(ls[i], "#", ">")
         THEN StripFrom_Dropping(ls, CommentEnd(ls, i + 1) + 1)
         ELSE <<StripInline(ls[i])>> \o StripFrom_Dropping(ls, i + 1)

\* The while loop of remove_comments_with_lines from line i on:
\* the stripped lines, in order.
RECURSIVE StripFrom(_, _)
StripFrom(ls, i) ==
    IF i > Len(ls) THEN <<>>
    ELSE IF HasMarker(ls[i], "<", "#") /\ ~HasMarker(ls[i], "#", ">")
         THEN LET j == CommentEnd(ls, i + 1)
                  last == Min(j, Len(ls))
              IN  [k \in 1..(last - i + 1) |-> <<>>] \o StripFrom(ls, j + 1)
         ELSE <<StripInline(ls[i])>> \o StripFrom(ls, i + 1)

remove_comments_with_lines(text) == StripFrom(text, 1)

\* line_map as the while loop fills it: entry n, for the n-th stripped line
\* appended, is the 1-based number of the input line it was appended for
RECURSIVE MapFrom(_, _)
MapFrom(ls, i) ==
    IF i > Len(ls) THEN <<>>
    ELSE IF HasMarker(ls[i], "<", "#") /\ ~HasMarker(ls[i], "#", ">")
         THEN LET j == CommentEnd(ls, i + 1)
                  last == Min(j, Len(ls))
              IN  [k \in 1..(last - i + 1) |-> (i + k - 1)] \o MapFrom(ls, j + 1)
         ELSE <<i>> \o MapFrom(ls, i + 1)

LineMapOf(text) == MapFrom(text, 1)

(***************************************************************************)
(* LEXER: the character scanner of one line                                *)
(***************************************************************************)
Digits == {"0", "1", "2", "3", "4", "5", "6", "7", "8", "9"}
Letters == {"a", "b", "c", "d", "e", "f", "g", "h", "i", "j", "k", "l", "m",
            "n", "o", "p", "q", "r", "s", "t", "u", "v", "w", "x", "y", "z",
            "X", "Y"}
Blank == {" ", "\t"}

keywords == {<<"m","a","i","n">>, <<"f","r","o","m">>,
             <<"i","m","p","o","r","t">>, <<"i","f">>, <<"e","l","s","e">>,
             <<"f","o","r">>, <<"i","n">>, <<"r","e","t","u","r","n">>,
             <<"t","r","u","e">>, <<"f","a","l","s","e">>, <<"a","n","d">>,
             <<"o","r">>, <<"n","o","t">>, <<"a","l","l">>}

two_char_ops == (<<">", "=">> :> "GTE") @@ (<<"<", "=">> :> "LTE")
             @@ (<<"=", "=">> :> "EQ") @@ (<<"!", "=">> :> "NEQ")

single_char == ("=" :> "ASSIGN") @@ ("+" :> "PLUS") @@ ("-" :> "MINUS")
            @@ ("*" :> "MULTIPLY") @@ ("/" :> "DIVIDE") @@ ("!" :> "NOT")
            @@ (">" :> "GT") @@ ("<" :> "LT") @@ (":" :> "COLON")
            @@ ("," :> "COMMA") @@ ("." :> "DOT") @@ ("(" :> "LPAREN")
            @@ (")" :> "RPAREN") @@ ("[" :> "LBRACKET") @@ ("]" :> "RBRACKET")
            @@ ("{" :> "LBRACE") @@ ("}" :> "RBRACE")

Tok(type, value, line) == [type |-> type, value |-> value, line |-> line]

\* len(line) - len(line.lstrip())
RECURSIVE LeadingBlanks(_)
LeadingBlanks(line) ==
    IF line # <<>> /\ Head(line) \in Blank
    THEN 1 + LeadingBlanks(Tail(line))
    ELSE 0

RECURSIVE TrailingBlanks(_)
TrailingBlanks(line) ==
    IF line # <<>> /\ line[Len(line)] \in Blank
    THEN 1 + TrailingBlanks(SubSeq(line, 1, Len(line) - 1))
    ELSE 0

\* line.strip()
Strip(line) ==
    IF LeadingBlanks(line) = Len(line) THEN <<>>
    ELSE SubSeq(line, LeadingBlanks(line) + 1, Len(line) - TrailingBlanks(line))

\* End (exclusive) of the run of characters of class S starting at i.
RECURSIVE RunEnd(_, _, _)
RunEnd(s, i, S) ==
    IF i <= Len(s) /\ s[i] \in S THEN RunEnd(s, i + 1, S) ELSE i

\* End (exclusive) of a string literal body starting at i: the closing quote.
RECURSIVE StringEnd(_, _, _)
StringEnd(s, i, quote) ==
    IF i > Len(s) \/ s[i] = quote THEN i
    ELSE IF s[i] = "\\" /\ i + 1 <= Len(s) THEN StringEnd(s, i + 2, quote)
    ELSE StringEnd(s, i + 1, quote)

\* The value of a string literal: a backslash keeps the character after it.
RECURSIVE StringVal(_, _, _)
StringVal(s, i, quote) ==
    IF i > Len(s) \/ s[i] = quote THEN <<>>
    ELSE IF s[i] = "\\" /\ i + 1 <= Len(s)
         THEN <<s[i + 1]>> \o StringVal(s, i + 2, quote)
         ELSE <<s[i]>> \o StringVal(s, i + 1, quote)

\* The while loop over the characters of a stripped line, from position i.
RECURSIVE ScanLine(_, _, _)
ScanLine(s, i, ln) ==
    IF i > Len(s) THEN <<>>
    ELSE LET char == s[i] IN
      IF char \in Blank THEN ScanLine(s, i + 1, ln)
      ELSE IF char \in Digits
              \/ (char = "-" /\ i + 1 <= Len(s) /\ s[i + 1] \in Digits)
      THEN LET from == IF char = "-" THEN i + 1 ELSE i
               to == RunEnd(s, from, Digits \cup {"."})
           IN  <<Tok("NUMBER", SubSeq(s, i, to - 1), ln)>> \o ScanLine(s, to, ln)
      ELSE IF char \in {"\"", "'"}
      THEN LET to == StringEnd(s, i + 1, char)
           IN  <<Tok("STRING", StringVal(s, i + 1, char), ln)>>
                   \o ScanLine(s, to + 1, ln)
      ELSE IF char \in Letters \cup {"_"}
      THEN LET to == RunEnd(s, i, Letters \cup Digits \cup {"_"})
               ident == SubSeq(s, i, to - 1)
           IN  <<Tok(IF ident \in keywords THEN "KEYWORD" ELSE "IDENTIFIER",
                     ident, ln)>> \o ScanLine(s, to, ln)
      ELSE IF i + 1 <= Len(s) /\ SubSeq(s, i, i + 1) \in DOMAIN two_char_ops
      THEN <<Tok(two_char_ops[SubSeq(s, i, i + 1)], SubSeq(s, i, i + 1), ln)>>
               \o ScanLine(s, i + 2, ln)
      ELSE IF char \in DOMAIN single_char
      THEN <<Tok(single_char[char], <<char>>, ln)>> \o ScanLine(s, i + 1, ln)
      ELSE ScanLine(s, i + 1, ln)

(***************************************************************************)
(* LEXER: indentation handling of one line                                 *)
(***************************************************************************)
Top(stack) == stack[Len(stack)]

\* while indent_stack[-1] > indent_level: pop, emit DEDENT
RECURSIVE PopTo(_, _)
PopTo(stack, level) ==
    IF Top(stack) > level THEN PopTo(SubSeq(stack, 1, Len(stack) - 1), level)
    ELSE stack

Dedents(n, ln) == [k \in 1..n |-> Tok("DEDENT", <<>>, ln)]

\* Mutant: a decrease to a width that is not on the stack pushes that width.
StackAfter_PushMismatch(stack, level) ==
    IF level > Top(stack) THEN Append(stack, level)
    ELSE IF level < Top(stack)
         THEN IF Top(PopTo(stack, level)) < level
              THEN Append(PopTo(stack, level), level) ELSE PopTo(stack, level)
         ELSE stack

\* The indent_stack after the if/elif of one non-blank line.
StackAfter(stack, level) ==
    IF level > Top(stack) THEN Append(stack, level)
    ELSE IF level < Top(stack) THEN PopTo(stack, level)
    ELSE stack

\* Mutant: a decrease emits a single DEDENT however many levels are popped.
IndentTokens_OneDedent(stack, level, ln) ==
    IF level > Top(stack) THEN <<Tok("INDENT", <<>>, ln)>>
    ELSE IF level < Top(stack) THEN <<Tok("DEDENT", <<>>, ln)>>
    ELSE <<>>

\* The INDENT / DEDENT tokens that if/elif emits.
IndentTokens(stack, level, ln) ==
    IF level > Top(stack) THEN <<Tok("INDENT", <<>>, ln)>>
    ELSE IF level < Top(stack)
         THEN Dedents(Len(stack) - Len(PopTo(stack, level)), ln)
         ELSE <<>>

(***************************************************************************)
(* LEXER: tokenize as a state machine, one step per line                   *)
(***************************************************************************)
\* source, line_map = remove_comments_with_lines(source); indent_stack = [0]
TokStart ==
    /\ lex_pc = "start"
    /\ lines' = remove_comments_with_lines(source)
    /\ line_map' = LineMapOf(source)
    /\ line_num' = 0
    /\ indent_stack' = <<0>>
    /\ tokens' = <<>>
    /\ lex_pc' = "loop"
    /\ UNCHANGED source

\* One iteration of `for line_num, line in enumerate(lines, 1)`.
TokLine ==
    /\ lex_pc = "loop"
    /\ line_num < Len(lines)
    /\ LET n == line_num + 1
           line == lines[n]
           original_line == line_map[n]
           indent_level == LeadingBlanks(line)
           stripped == Strip(line)
       IN  /\ line_num' = n
           /\ IF stripped = <<>>
              THEN UNCHANGED <<indent_stack, tokens>>
              ELSE /\ indent_stack' = StackAfter(indent_stack, indent_level)
                   /\ tokens' = tokens
                        \o IndentTokens(indent_stack, indent_level, original_line)
                        \o ScanLine(stripped, 1, original_line)
                        \o <<Tok("NEWLINE", <<>>, original_line)>>
    /\ UNCHANGED <<source, lines, line_map, lex_pc>>

\* After the loop: pop the whole stack, one DEDENT each, then EOF.
TokEnd ==
    /\ lex_pc = "loop"
    /\ line_num = Len(lines)
    /\ LET last_line == IF Len(lines) \in DOMAIN line_map
                        THEN line_map[Len(lines)] ELSE Len(lines)
       IN  tokens' = tokens \o Dedents(Len(indent_stack) - 1, last_line)
                            \o <<Tok("EOF", <<>>, last_line)>>
    /\ indent_stack' = <<indent_stack[1]>>
    /\ lex_pc' = "done"
    /\ UNCHANGED <<source, lines, line_map, line_num>>

\* remove_comments_with_lines applied to the text it returned: `source`
\* becomes the first result, `lines` the second.
StripAgain ==
    /\ lex_pc = "loop"
    /\ line_num = 0
    /\ source' = lines
    /\ lines' = remove_comments_with_lines(lines)
    /\ line_map' = LineMapOf(lines)
    /\ lex_pc' = "stripped_twice"
    /\ UNCHANGED <<line_num, indent_stack, tokens>>

(***************************************************************************)
(* AST: the dict shapes parse() builds                                     *)
(***************************************************************************)
\* Identifiers are character sequences, as the scanner produces them.

\* dict.get(key, default)
Get(d, key, default) == IF key \in DOMAIN d THEN d[key] ELSE default
\* node.get('type')
TypeOf(d) == Get(d, "type", "None")

repeat_by == <<"r", "e", "p", "e", "a", "t", "_", "b", "y">>
on_click == <<"o", "n", "_", "c", "l", "i", "c", "k">>
text_content == <<"t", "e", "x", "t", "_", "c", "o", "n", "t", "e", "n", "t">>
visibility == <<"v", "i", "s", "i", "b", "i", "l", "i", "t", "y">>
children == <<"c", "h", "i", "l", "d", "r", "e", "n">>
index == <<"i", "n", "d", "e", "x">>
wait_sec == <<"w", "a", "i", "t", "_", "s", "e", "c">>
type_attr == <<"t", "y", "p", "e">>
button == <<"b", "u", "t", "t", "o", "n">>
input == <<"i", "n", "p", "u", "t">>
scrollable == <<"s", "c", "r", "o", "l", "l", "a", "b", "l", "e">>
placeholder == <<"p", "l", "a", "c", "e", "h", "o", "l", "d", "e", "r">>
icon == <<"i", "c", "o", "n">>
search_bar == <<"s", "e", "a", "r", "c", "h", "_", "b", "a", "r">>
link == <<"l", "i", "n", "k">>
scroller == <<"s", "c", "r", "o", "l", "l", "e", "r">>

\* A number literal's value: Python int (float = FALSE) or float.
Num(n) == [whole |-> n, tenths |-> 0, float |-> FALSE]
Float(n, t) == [whole |-> n, tenths |-> t, float |-> TRUE]
\* int(value): truncation
IntOf(v) == v.whole

Lit(v, vt) == [type |-> "literal", value |-> v, value_type |-> vt]
NumLit(n) == Lit(Num(n), "number")
StrLit(str) == Lit(str, "string")
BoolLit(b) == Lit(b, "boolean")
Var(n) == [type |-> "var", name |-> n]
Call(f, args) == [type |-> "call", function |-> f, args |-> args]
Member(o, f) == [type |-> "member", object |-> o, field |-> f]
Index(o, ix) == [type |-> "index", object |-> o, index |-> ix]
Arr(elems) == [type |-> "array", elements |-> elems]
BinOp(op, l, r) == [type |-> "binary_op", op |-> op, left |-> l, right |-> r]
UnOp(op, e) == [type |-> "unary_op", op |-> op, operand |-> e]

Assign(t, v) == [type |-> "assign", target |-> t, value |-> v]
ExprStmt(e) == [type |-> "expr_stmt", expr |-> e]
Return(v) == [type |-> "return", value |-> v]
If(c, th, el) == [type |-> "if", condition |-> c, then |-> th, else |-> el]
For(v, it, b) == [type |-> "for", var |-> v, iterable |-> it, body |-> b]
\* attributes: the dict in insertion order, a sequence of (name, value)
Attr(n, v) == [name |-> n, value |-> v]
Modify(t, attrs) == [type |-> "modify_container", target |-> t, attributes |-> attrs]

FuncNode(params, body) == [params |-> params, body |-> body]
Container(attrs, children_def) == [attributes |-> attrs, children_def |-> children_def]

AttrNames(attrs) == {attrs[i].name : i \in 1..Len(attrs)}

(***************************************************************************)
(* PARSER: parse(tokens).  Positions are 1-based.  A parsing step returns  *)
(* the node it built and the position after it; a raised SyntaxError is    *)
(* the result with position 0.                                             *)
(***************************************************************************)
kw_if == <<"i", "f">>
kw_else == <<"e", "l", "s", "e">>
kw_for == <<"f", "o", "r">>
kw_return == <<"r", "e", "t", "u", "r", "n">>
kw_main == <<"m", "a", "i", "n">>
kw_from == <<"f", "r", "o", "m">>
kw_import == <<"i", "m", "p", "o", "r", "t">>
kw_true == <<"t", "r", "u", "e">>
kw_false == <<"f", "a", "l", "s", "e">>
kw_and == <<"a", "n", "d">>
kw_or == <<"o", "r">>
kw_not == <<"n", "o", "t">>

DigitVal == ("0" :> 0) @@ ("1" :> 1) @@ ("2" :> 2) @@ ("3" :> 3) @@ ("4" :> 4)
         @@ ("5" :> 5) @@ ("6" :> 6) @@ ("7" :> 7) @@ ("8" :> 8) @@ ("9" :> 9)

\* int(digits)
RECURSIVE IntOfDigits(_)
IntOfDigits(ds) ==
    IF ds = <<>> THEN 0
    ELSE 10 * IntOfDigits(SubSeq(ds, 1, Len(ds) - 1)) + DigitVal[ds[Len(ds)]]

\* float(num_str) if '.' in num_str else int(num_str); a float keeps its
\* first decimal
NumberValue(num_str) ==
    LET sign == IF num_str[1] = "-" THEN -1 ELSE 1
        digits == IF num_str[1] = "-" THEN Tail(num_str) ELSE num_str
        dot == RunEnd(digits, 1, Digits)
    IN  IF dot > Len(digits) THEN Num(sign * IntOfDigits(digits))
        ELSE Float(sign * IntOfDigits(SubSeq(digits, 1, dot - 1)),
                   IF dot + 1 <= Len(digits) /\ digits[dot + 1] \in Digits
                   THEN DigitVal[digits[dot + 1]] ELSE 0)

peek(toks, pos) == IF pos <= Len(toks) THEN toks[pos] ELSE toks[Len(toks)]

peek_type(toks, pos) == peek(toks, pos).type

IsKeyword(tok, word) == tok.type = "KEYWORD" /\ tok.value = word

Parsed(node, pos) == [node |-> node, pos |-> pos]

SyntaxError == [node |-> <<>>, pos |-> 0]

Raised(result) == result.pos = 0

\* consume(expected_type) when nothing but the position is needed
Expect(toks, pos, expected_type) ==
    IF peek_type(toks, pos) = expected_type THEN pos + 1 ELSE 0

RECURSIVE skip_newlines(_, _)
skip_newlines(toks, pos) ==
    IF peek_type(toks, pos) = "NEWLINE" THEN skip_newlines(toks, pos + 1) ELSE pos

RECURSIVE skip_whitespace(_, _)
skip_whitespace(toks, pos) ==
    IF peek_type(toks, pos) \in {"NEWLINE", "INDENT", "DEDENT"}
    THEN skip_whitespace(toks, pos + 1) ELSE pos

\* dict[key] = value on a dict kept in insertion order
RECURSIVE DictSet(_, _, _)
DictSet(attrs, key, value) ==
    IF attrs = <<>> THEN <<Attr(key, value)>>
    ELSE IF Head(attrs).name = key THEN <<Attr(key, value)>> \o Tail(attrs)
    ELSE <<Head(attrs)>> \o DictSet(Tail(attrs), key, value)

\* The only element of a singleton: `The({e : x \in {v}})` is e with x bound
\* to the value v, computed once
The(S) == CHOOSE e \in S : TRUE

\* The operator tokens of parse_or (1), parse_and (2), parse_comparison (3),
\* parse_additive (4) and parse_multiplicative (5)
IsBinaryOp(level, tok) ==
    CASE level = 1 -> IsKeyword(tok, kw_or)
      [] level = 2 -> IsKeyword(tok, kw_and)
      [] level = 3 -> tok.type \in {"GT", "LT", "GTE", "LTE", "EQ", "NEQ"}
      [] level = 4 -> tok.type \in {"PLUS", "MINUS"}
      [] OTHER -> tok.type \in {"MULTIPLY", "DIVIDE"}

\* if peek()['type'] == token_type: consume()
Optional(toks, pos, token_type) ==
    IF peek_type(toks, pos) = token_type THEN pos + 1 ELSE pos

\* The parsing functions call one another through Rule, by name
RECURSIVE Rule(_, _, _), parse_level(_, _, _), LevelLoop(_, _, _, _), parse_unary(_, _),
          PostfixLoop(_, _, _), ParseArgs(_, _, _), ParseElements(_, _, _),
          ParseProperties(_, _, _)

\* The else-part of a ternary; pos is after the then-value
TernaryElse(toks, pos, condition, then_node, then_first) ==
    IF IsKeyword(peek(toks, pos), kw_else)
    THEN The({IF Raised(else_expr) THEN else_expr
              ELSE Parsed([type |-> "ternary", condition |-> condition,
                           then |-> then_node, else |-> else_expr.node], else_expr.pos)
                 : else_expr \in {Rule("parse_expression", toks,
                                       skip_whitespace(toks, pos + 1))}})
    ELSE IF then_first THEN Parsed(then_node, pos)
    ELSE SyntaxError

\* parse_ternary; pos is after the `if` that follows the then-value, or after
\* the `if` that opens an if-first ternary (then_first = FALSE)
TernaryTail(toks, pos, then_node, then_first) ==
    The({IF Raised(condition) THEN condition
         ELSE IF then_first
         THEN TernaryElse(toks,
                  skip_whitespace(toks, Optional(toks, condition.pos, "RPAREN")),
                  condition.node, then_node, TRUE)
         ELSE The({IF Raised(then_expr) THEN then_expr
                   ELSE TernaryElse(toks, skip_whitespace(toks, then_expr.pos),
                                    condition.node, then_expr.node, FALSE)
                      : then_expr \in {Rule("parse_expression", toks,
                            skip_whitespace(toks, Optional(toks, condition.pos, "RPAREN")))}})
            : condition \in {parse_level(1, toks,
                                 Optional(toks, skip_whitespace(toks, pos), "LPAREN"))}})

parse_expression(toks, pos) ==
    The({IF Raised(expr) \/ ~IsKeyword(peek(toks, expr.pos), kw_if) THEN expr
         ELSE TernaryTail(toks, expr.pos + 1, expr.node, TRUE)
            : expr \in {parse_level(1, toks, pos)}})

parse_level(level, toks, pos) ==
    IF level > 5 THEN Rule("parse_unary", toks, pos)
    ELSE The({IF Raised(left) THEN left ELSE LevelLoop(level, toks, left.node, left.pos)
                 : left \in {parse_level(level + 1, toks, pos)}})

LevelLoop(level, toks, left, pos) ==
    IF ~IsBinaryOp(level, peek(toks, pos)) THEN Parsed(left, pos)
    ELSE The({IF Raised(right) THEN right
              ELSE LevelLoop(level, toks, BinOp(peek(toks, pos).value, left, right.node),
                             right.pos)
                 : right \in {parse_level(level + 1, toks, pos + 1)}})

parse_postfix(toks, pos) ==
    The({IF Raised(expr) THEN expr ELSE PostfixLoop(toks, expr.node, expr.pos)
            : expr \in {Rule("parse_primary", toks, pos)}})

parse_unary(toks, pos) ==
    IF peek_type(toks, pos) \in {"NOT", "MINUS"}
    THEN The({IF Raised(operand) THEN operand
              ELSE Parsed(UnOp(IF peek_type(toks, pos) = "NOT" THEN kw_not
                               ELSE peek(toks, pos).value, operand.node), operand.pos)
                 : operand \in {parse_unary(toks, pos + 1)}})
    ELSE Rule("parse_postfix", toks, pos)

PostfixLoop(toks, expr, pos) ==
    IF peek_type(toks, pos) = "DOT"
    THEN IF peek_type(toks, pos + 1) # "IDENTIFIER" THEN SyntaxError
         ELSE PostfixLoop(toks, Member(expr, peek(toks, pos + 1).value), pos + 2)
    ELSE IF peek_type(toks, pos) = "LBRACKET"
    THEN The({IF Raised(ix) \/ peek_type(toks, ix.pos) # "RBRACKET" THEN SyntaxError
              ELSE PostfixLoop(toks, Index(expr, ix.node), ix.pos + 1)
                 : ix \in {Rule("parse_expression", toks, pos + 1)}})
    ELSE IF peek_type(toks, pos) = "LPAREN"
    THEN The({IF Raised(args) \/ peek_type(toks, args.pos) # "RPAREN" THEN SyntaxError
              ELSE PostfixLoop(toks,
                      IF TypeOf(expr) = "member"
                      THEN [type |-> "method_call", object |-> expr.object,
                            method |-> expr.field, args |-> args.node]
                      ELSE Call(expr, args.node),
                      args.pos + 1)
                 : args \in {ParseArgs(toks, pos + 1, <<>>)}})
    ELSE Parsed(expr, pos)

ParseArgs(toks, pos, args) ==
    IF peek_type(toks, pos) \in {"RPAREN", "EOF"} THEN Parsed(args, pos)
    ELSE The({IF Raised(arg) THEN arg
              ELSE ParseArgs(toks, Optional(toks, arg.pos, "COMMA"), Append(args, arg.node))
                 : arg \in {Rule("parse_expression", toks, pos)}})

parse_primary(toks, pos) ==
    The({
    IF token.type = "NUMBER" THEN Parsed(Lit(NumberValue(token.value), "number"), pos + 1)
    ELSE IF token.type = "STRING" THEN Parsed(StrLit(token.value), pos + 1)
    ELSE IF IsKeyword(token, kw_true) \/ IsKeyword(token, kw_false)
    THEN Parsed(BoolLit(token.value = kw_true), pos + 1)
    ELSE IF IsKeyword(token, kw_not)
    THEN The({IF Raised(operand) THEN operand
              ELSE Parsed(UnOp(kw_not, operand.node), operand.pos)
                 : operand \in {Rule("parse_unary", toks, pos + 1)}})
    ELSE IF IsKeyword(token, kw_if) THEN TernaryTail(toks, pos + 1, <<>>, FALSE)
    ELSE IF token.type = "IDENTIFIER" THEN Parsed(Var(token.value), pos + 1)
    ELSE IF token.type = "LBRACKET"
    THEN The({IF Raised(elements) \/ peek_type(toks, elements.pos) # "RBRACKET"
              THEN SyntaxError
              ELSE Parsed(Arr(elements.node), elements.pos + 1)
                 : elements \in {ParseElements(toks, pos + 1, <<>>)}})
    ELSE IF token.type = "LPAREN"
    THEN The({IF Raised(expr) THEN expr
              ELSE Parsed(expr.node, Expect(toks, skip_whitespace(toks, expr.pos), "RPAREN"))
                 : expr \in {Rule("parse_expression", toks, skip_whitespace(toks, pos + 1))}})
    ELSE IF token.type = "LBRACE"
    THEN The({IF Raised(properties) \/ peek_type(toks, properties.pos) # "RBRACE"
              THEN SyntaxError
              ELSE Parsed([type |-> "object", properties |-> properties.node],
                          properties.pos + 1)
                 : properties \in {ParseProperties(toks, pos + 1, <<>>)}})
    ELSE SyntaxError
       : token \in {peek(toks, pos)}})

\* One turn of the while loop of an array literal; pos is after the
\* whitespace, at the element
ParseElement(toks, pos, elements) ==
    The({The({IF Raised(value) THEN value
              ELSE ParseElements(toks,
                       skip_whitespace(toks,
                           Optional(toks, skip_whitespace(toks, value.pos), "COMMA")),
                       Append(elements,
                              IF kv THEN [type |-> "kvpair", key |-> peek(toks, pos).value,
                                          value |-> value.node]
                              ELSE value.node))
                 : value \in {Rule("parse_expression", toks,
                                   IF kv THEN skip_whitespace(toks, pos + 2) ELSE pos)}})
            : kv \in {/\ peek_type(toks, pos) = "IDENTIFIER"
                      /\ peek_type(toks, pos + 1) = "COLON"
                      /\ peek_type(toks, pos + 2) \notin {"NEWLINE", "INDENT"}}})

\* The while loop of an array literal
ParseElements(toks, pos, elements) ==
    IF peek_type(toks, pos) \in {"RBRACKET", "EOF"} THEN Parsed(elements, pos)
    ELSE The({IF peek_type(toks, p1) = "RBRACKET" THEN Parsed(elements, p1)
              ELSE ParseElement(toks, p1, elements)
                 : p1 \in {skip_whitespace(toks, pos)}})

\* One turn of the while loop of an object literal; pos is at the key
ParseProperty(toks, pos, properties) ==
    IF peek_type(toks, pos) # "IDENTIFIER" \/ peek_type(toks, pos + 1) # "COLON"
    THEN SyntaxError
    ELSE The({IF Raised(value) THEN value
              ELSE ParseProperties(toks,
                       skip_whitespace(toks,
                           Optional(toks, skip_whitespace(toks, value.pos), "COMMA")),
                       DictSet(properties, peek(toks, pos).value, value.node))
                 : value \in {Rule("parse_expression", toks,
                                   skip_whitespace(toks, pos + 2))}})

\* The while loop of an object literal
ParseProperties(toks, pos, properties) ==
    IF peek_type(toks, pos) \in {"RBRACE", "EOF"} THEN Parsed(properties, pos)
    ELSE The({IF peek_type(toks, p1) = "RBRACE" THEN Parsed(properties, p1)
              ELSE ParseProperty(toks, p1, properties)
                 : p1 \in {skip_whitespace(toks, pos)}})

Rule(rule, toks, pos) ==
    CASE rule = "parse_expression" -> parse_expression(toks, pos)
      [] rule = "parse_unary" -> parse_unary(toks, pos)
      [] rule = "parse_postfix" -> parse_postfix(toks, pos)
      [] rule = "parse_primary" -> parse_primary(toks, pos)

(***************************************************************************)
(* PARSER: container bodies                                                *)
(***************************************************************************)
\* The elements of `attr = a, b, c` after the first; pos is at a COMMA
RECURSIVE ImplicitArray(_, _, _)
ImplicitArray(toks, pos, elements) ==
    IF peek_type(toks, pos) # "COMMA" THEN Parsed(Arr(elements), pos)
    ELSE The({IF Raised(element) THEN element
              ELSE ImplicitArray(toks, element.pos, Append(elements, element.node))
                 : element \in {parse_expression(toks, skip_newlines(toks, pos + 1))}})

\* attr = value, or attr = value, value, ...; pos is after ASSIGN
AttrValue(toks, pos) ==
    The({IF Raised(first_val) \/ peek_type(toks, first_val.pos) # "COMMA" THEN first_val
         ELSE ImplicitArray(toks, first_val.pos, <<first_val.node>>)
            : first_val \in {parse_expression(toks, pos)}})

RECURSIVE parse_container_body(_, _), ContainerLoop(_, _, _)

parse_container_body(toks, pos) ==
    IF peek_type(toks, pos) # "INDENT" THEN Parsed(Container(<<>>, <<>>), pos)
    ELSE The({IF Raised(body) THEN body
              ELSE Parsed(body.node, Optional(toks, body.pos, "DEDENT"))
                 : body \in {ContainerLoop(toks, pos + 1, Container(<<>>, <<>>))}})

\* while peek()['type'] not in ['DEDENT', 'EOF']
ContainerLoop(toks, pos, container) ==
    IF peek_type(toks, pos) \in {"DEDENT", "EOF"} THEN Parsed(container, pos)
    ELSE IF peek_type(toks, pos) = "NEWLINE"
    THEN ContainerLoop(toks, skip_newlines(toks, pos), container)
    ELSE IF peek_type(toks, pos) = "IDENTIFIER" /\ peek_type(toks, pos + 1) = "ASSIGN"
    THEN The({IF Raised(attr_value) THEN attr_value
              ELSE ContainerLoop(toks, skip_newlines(toks, attr_value.pos),
                       [container EXCEPT !.attributes =
                           (peek(toks, pos).value :> attr_value.node) @@ @])
                 : attr_value \in {AttrValue(toks, pos + 2)}})
    ELSE IF peek_type(toks, pos) = "IDENTIFIER" /\ peek_type(toks, pos + 1) = "COLON"
    THEN IF peek_type(toks, skip_newlines(toks, pos + 2)) # "INDENT"
         THEN ContainerLoop(toks, skip_newlines(toks, pos + 2), container)
         ELSE The({IF Raised(nested) THEN nested
                   ELSE ContainerLoop(toks, nested.pos,
                            [container EXCEPT !.children_def =
                                Append(@, [attributes |-> nested.node.attributes,
                                           children_def |-> nested.node.children_def,
                                           name |-> peek(toks, pos).value])])
                      : nested \in {parse_container_body(toks,
                                        skip_newlines(toks, pos + 2))}})
    ELSE ContainerLoop(toks, skip_newlines(toks, pos + 1), container)

(***************************************************************************)
(* PARSER: function bodies.  The statements a block admits depend on how   *)
(* deep it is: the function body (3) takes return, if, for and simple      *)
(* statements; the then- and for-bodies in it (2) take if, for, container  *)
(* modifications and simple statements; the bodies in those (1) take       *)
(* container modifications and simple statements; else-bodies (0) take     *)
(* simple statements only.                                                 *)
(***************************************************************************)
\* target = value, or an expression on its own
ParseSimple(toks, pos) ==
    The({IF Raised(target_expr) THEN target_expr
         ELSE IF peek_type(toks, target_expr.pos) # "ASSIGN"
         THEN Parsed(ExprStmt(target_expr.node), target_expr.pos)
         ELSE The({IF Raised(value_expr) THEN value_expr
                   ELSE Parsed(Assign(target_expr.node, value_expr.node), value_expr.pos)
                      : value_expr \in {parse_expression(toks, target_expr.pos + 1)}})
            : target_expr \in {parse_expression(toks, pos)}})

\* The `attr = value` lines of a container modification
RECURSIVE ParseModAttrs(_, _, _)
ParseModAttrs(toks, pos, mod_attrs) ==
    IF peek_type(toks, pos) \in {"DEDENT", "EOF"} THEN Parsed(mod_attrs, pos)
    ELSE IF peek_type(toks, pos) = "NEWLINE"
    THEN ParseModAttrs(toks, skip_newlines(toks, pos), mod_attrs)
    ELSE IF peek_type(toks, pos) # "IDENTIFIER" \/ peek_type(toks, pos + 1) # "ASSIGN"
    THEN SyntaxError
    ELSE The({IF Raised(attr_value) THEN attr_value
              ELSE ParseModAttrs(toks, skip_newlines(toks, attr_value.pos),
                       DictSet(mod_attrs, peek(toks, pos).value, attr_value.node))
                 : attr_value \in {parse_expression(toks, pos + 2)}})

\* `target:` and its indented attribute lines; pos is at the identifier
ParseModify(toks, pos) ==
    IF peek_type(toks, skip_newlines(toks, pos + 2)) # "INDENT"
    THEN Parsed(Modify(Var(peek(toks, pos).value), <<>>), skip_newlines(toks, pos + 2))
    ELSE The({IF Raised(mod_attrs) THEN mod_attrs
              ELSE Parsed(Modify(Var(peek(toks, pos).value), mod_attrs.node),
                          Expect(toks, mod_attrs.pos, "DEDENT"))
                 : mod_attrs \in {ParseModAttrs(toks, skip_newlines(toks, pos + 2) + 1,
                                                <<>>)}})

RECURSIVE ParseBlock(_, _, _, _)

\* COLON, newlines, INDENT, the block, DEDENT; pos is at the COLON
IndentedBlock(toks, pos, depth) ==
    IF \/ peek_type(toks, pos) # "COLON"
       \/ peek_type(toks, skip_newlines(toks, pos + 1)) # "INDENT"
    THEN SyntaxError
    ELSE The({IF Raised(body) THEN body
              ELSE Parsed(body.node, Expect(toks, body.pos, "DEDENT"))
                 : body \in {ParseBlock(toks, skip_newlines(toks, pos + 1) + 1, depth,
                                        <<>>)}})

\* [else: else-body] after a then-body
ParseElse(toks, pos, condition, then_body) ==
    IF ~IsKeyword(peek(toks, pos), kw_else) THEN Parsed(If(condition, then_body, <<>>), pos)
    ELSE The({IF Raised(else_body) THEN else_body
              ELSE Parsed(If(condition, then_body, else_body.node), else_body.pos)
                 : else_body \in {IndentedBlock(toks, pos + 1, 0)}})

\* if [(] condition [)]: then-body [else: else-body]; pos is after `if`
ParseIf(toks, pos, depth) ==
    The({IF Raised(condition) THEN condition
         ELSE The({IF Raised(then_body) THEN then_body
                   ELSE ParseElse(toks, then_body.pos, condition.node, then_body.node)
                      : then_body \in {IndentedBlock(toks,
                            Optional(toks, condition.pos, "RPAREN"), depth)}})
            : condition \in {parse_expression(toks, Optional(toks, pos, "LPAREN"))}})

\* for var in iterable: body; pos is after `for`
ParseFor(toks, pos, depth) ==
    IF peek_type(toks, pos) # "IDENTIFIER" \/ peek_type(toks, pos + 1) # "KEYWORD"
    THEN SyntaxError
    ELSE The({IF Raised(iterable) THEN iterable
              ELSE The({IF Raised(for_body) THEN for_body
                        ELSE Parsed(For(peek(toks, pos).value, iterable.node,
                                        for_body.node), for_body.pos)
                           : for_body \in {IndentedBlock(toks, iterable.pos, depth)}})
                 : iterable \in {parse_expression(toks, pos + 2)}})

\* return value; pos is after `return`
ParseReturn(toks, pos) ==
    The({IF Raised(ret_value) THEN ret_value
         ELSE Parsed(Return(ret_value.node), ret_value.pos)
            : ret_value \in {parse_expression(toks, pos)}})

\* The statement at pos of a block of the given depth
ParseStatement(toks, pos, depth) ==
    IF depth = 3 /\ IsKeyword(peek(toks, pos), kw_return) THEN ParseReturn(toks, pos + 1)
    ELSE IF depth >= 2 /\ IsKeyword(peek(toks, pos), kw_if)
    THEN ParseIf(toks, pos + 1, depth - 1)
    ELSE IF depth >= 2 /\ IsKeyword(peek(toks, pos), kw_for)
    THEN ParseFor(toks, pos + 1, depth - 1)
    ELSE IF /\ depth \in {1, 2}
            /\ peek_type(toks, pos) = "IDENTIFIER"
            /\ peek_type(toks, pos + 1) = "COLON"
    THEN ParseModify(toks, pos)
    ELSE ParseSimple(toks, pos)

\* while peek()['type'] not in ['DEDENT', 'EOF'] of a block
ParseBlock(toks, pos, depth, body) ==
    IF peek_type(toks, pos) \in {"DEDENT", "EOF"} THEN Parsed(body, pos)
    ELSE IF peek_type(toks, pos) = "NEWLINE"
    THEN ParseBlock(toks, skip_newlines(toks, pos), depth, body)
    ELSE The({IF Raised(stmt) THEN stmt
              ELSE ParseBlock(toks, skip_newlines(toks, stmt.pos), depth,
                              Append(body, stmt.node))
                 : stmt \in {ParseStatement(toks, pos, depth)}})

(***************************************************************************)
(* PARSER: the top-level loop of parse                                     *)
(***************************************************************************)
\* A key's place in a dict is that of its first insertion
AddName(names, name) ==
    IF \E k \in 1..Len(names) : names[k] = name THEN names ELSE Append(names, name)

EmptyAst ==
    [imports |-> <<>>, variables |-> <<>>, functions |-> <<>>, containers |-> <<>>,
     main_container |-> None, container_names |-> <<>>, function_names |-> <<>>]

\* The names of `from "path" import a, b`; pos is at the first name
RECURSIVE ParseItems(_, _, _)
ParseItems(toks, pos, items) ==
    IF peek_type(toks, pos) # "IDENTIFIER" THEN SyntaxError
    ELSE IF peek_type(toks, pos + 1) # "COMMA"
    THEN Parsed(Append(items, peek(toks, pos).value), pos + 1)
    ELSE ParseItems(toks, pos + 2, Append(items, peek(toks, pos).value))

\* The parameter names of a declaration; pos is after LPAREN
RECURSIVE ParseParams(_, _, _)
ParseParams(toks, pos, params) ==
    IF peek_type(toks, pos) = "RPAREN" THEN Parsed(params, pos + 1)
    ELSE IF peek_type(toks, pos) # "IDENTIFIER" THEN SyntaxError
    ELSE ParseParams(toks, Optional(toks, pos + 1, "COMMA"),
                     Append(params, peek(toks, pos).value))

\* The body of a declaration; pos is after the parameters, at the COLON
ParseBody(toks, pos, params) ==
    IF peek_type(toks, pos) # "COLON" THEN SyntaxError
    ELSE IF peek_type(toks, skip_newlines(toks, pos + 1)) # "INDENT"
    THEN Parsed(FuncNode(params, <<>>), skip_newlines(toks, pos + 1))
    ELSE The({IF Raised(body) THEN body
              ELSE Parsed(FuncNode(params, body.node), Expect(toks, body.pos, "DEDENT"))
                 : body \in {ParseBlock(toks, skip_newlines(toks, pos + 1) + 1, 3, <<>>)}})

\* name(params): body; pos is after LPAREN
ParseFunction(toks, pos) ==
    The({IF Raised(params) THEN params ELSE ParseBody(toks, params.pos, params.node)
            : params \in {ParseParams(toks, pos, <<>>)}})

\* Mutant: the container is parsed but not entered in the mapping.
WithContainer_Unrecorded(ast, name, container) == ast

WithContainer(ast, name, container) ==
    [ast EXCEPT !.containers = (name :> container) @@ @,
                !.container_names = AddName(@, name)]

WithFunction(ast, name, func) ==
    [ast EXCEPT !.functions = (name :> func) @@ @,
                !.function_names = AddName(@, name)]

WithImport(ast, path, items) ==
    [ast EXCEPT !.imports = Append(@, [source |-> path, items |-> items])]

\* from "path" import * | a, b; pos is at `from`
ParseFrom(toks, pos) ==
    IF peek_type(toks, pos + 1) # "STRING" \/ peek_type(toks, pos + 2) # "KEYWORD"
    THEN SyntaxError
    ELSE IF peek_type(toks, pos + 3) = "MULTIPLY" THEN Parsed(Wildcard, pos + 4)
    ELSE ParseItems(toks, pos + 3, <<>>)

\* One turn of `while peek()['type'] != 'EOF'`: the declaration at pos, as
\* the ast with it and the position after it
\* Mutant: a turn of the top-level loop skips newlines and consumes nothing else.
ParseDeclaration_Stuck(toks, pos, ast) == Parsed(ast, skip_newlines(toks, pos))

ParseDeclaration(toks, pos, ast) ==
    The({The({
    IF IsKeyword(token, kw_from)
    THEN The({IF Raised(items) THEN items
              ELSE Parsed(WithImport(ast, peek(toks, pos + 1).value, items.node),
                          skip_newlines(toks, items.pos))
                 : items \in {ParseFrom(toks, pos)}})
    ELSE IF IsKeyword(token, kw_import)
    THEN IF next_type # "STRING" THEN SyntaxError
         ELSE Parsed(WithImport(ast, peek(toks, pos + 1).value, Wildcard),
                     skip_newlines(toks, pos + 2))
    ELSE IF token.type = "IDENTIFIER" /\ next_type = "ASSIGN"
    THEN The({IF Raised(value) THEN value
              ELSE Parsed([ast EXCEPT !.variables =
                              (token.value :> [value |-> value.node]) @@ @],
                          skip_newlines(toks, value.pos))
                 : value \in {parse_expression(toks, pos + 2)}})
    ELSE IF token.type = "IDENTIFIER" /\ next_type = "LPAREN"
    THEN The({IF Raised(func) THEN func
              ELSE Parsed(WithFunction(ast, token.value, func.node), func.pos)
                 : func \in {ParseFunction(toks, pos + 2)}})
    ELSE IF token.type = "IDENTIFIER" /\ next_type = "COLON"
    THEN The({IF Raised(container) THEN container
              ELSE Parsed(WithContainer(ast, token.value, container.node), container.pos)
                 : container \in {parse_container_body(toks, skip_newlines(toks, pos + 2))}})
    ELSE IF token.type = "IDENTIFIER" THEN Parsed(ast, skip_newlines(toks, pos + 1))
    ELSE IF IsKeyword(token, kw_main)
    THEN IF next_type # "IDENTIFIER" \/ peek_type(toks, pos + 2) # "COLON"
         THEN SyntaxError
         ELSE The({IF Raised(container) THEN container
                   ELSE Parsed([WithContainer(ast, peek(toks, pos + 1).value,
                                              container.node)
                                   EXCEPT !.main_container = peek(toks, pos + 1).value],
                               container.pos)
                      : container \in {parse_container_body(toks,
                                           skip_newlines(toks, pos + 3))}})
    ELSE Parsed(ast, IF peek_type(toks, skip_newlines(toks, pos)) \in {"NEWLINE", "EOF"}
                     THEN skip_newlines(toks, pos) ELSE skip_newlines(toks, pos) + 1)
       : next_type \in {peek_type(toks, pos + 1)}})
       : token \in {peek(toks, pos)}})

\* while peek()['type'] != 'EOF'
RECURSIVE ParseTop(_, _, _)
ParseTop(toks, pos, ast) ==
    IF peek_type(toks, pos) = "EOF" THEN Parsed(ast, pos)
    ELSE The({IF Raised(declared) THEN declared
              ELSE ParseTop(toks, declared.pos, declared.node)
                 : declared \in {ParseDeclaration(toks, pos, ast)}})

parse(toks) == ParseTop(toks, skip_newlines(toks, 1), EmptyAst)

(***************************************************************************)
(* JSON TREE: generate_widget and expand_repeat_by of the parser, kept as  *)
(* the tree's skeleton (name, widget, children)                            *)
(***************************************************************************)
Digit == <<"0", "1", "2", "3", "4", "5", "6", "7", "8", "9">>

\* str(n), n >= 0
RECURSIVE Str(_)
Str(n) == IF n < 10 THEN <<Digit[n + 1]>> ELSE Str(n \div 10) \o <<Digit[(n % 10) + 1]>>

TYPE_REQUIREMENTS ==
    (button :> {text_content}) @@ (input :> {placeholder}) @@ (icon :> {icon})
    @@ (search_bar :> {placeholder}) @@ (link :> {text_content})

JsonError(kind) == [widget |-> kind]
IsJsonError(w) == w.widget \in {"RecursionError", "SyntaxError"}

\* The first failure among the widgets, in generation order; <<>> if none
RECURSIVE FirstJsonError(_)
FirstJsonError(ws) ==
    IF ws = <<>> THEN <<>>
    ELSE IF IsJsonError(Head(ws)) THEN Head(ws) ELSE FirstJsonError(Tail(ws))

\* The children array's elements that generate a child: (name, node)
RECURSIVE JsonChildNodes(_, _)
JsonChildNodes(a, elements) ==
    IF elements = <<>> THEN <<>>
    ELSE LET elem == Head(elements)
             t == IF "type" \in DOMAIN elem THEN elem.type ELSE "None"
             obj_name == elem.object.name
             nested == a.containers[obj_name].children_def
             hits == {k \in 1..Len(nested) : nested[k].name = elem.field}
             first == CHOOSE k \in hits : \A j \in hits : k <= j
         IN  (IF t = "var" /\ elem.name \in DOMAIN a.containers
              THEN <<[name |-> elem.name, node |-> a.containers[elem.name]]>>
              ELSE IF t = "call" /\ "name" \in DOMAIN elem.function
                      /\ elem.function.name \in DOMAIN a.containers
              THEN <<[name |-> elem.function.name,
                      node |-> a.containers[elem.function.name]]>>
              ELSE IF t = "member" /\ obj_name \in DOMAIN a.containers /\ hits # {}
              THEN <<[name |-> obj_name \o <<".">> \o elem.field, node |-> nested[first]]>>
              ELSE <<>>) \o JsonChildNodes(a, Tail(elements))

\* The dimensions expand_repeat_by collects: ints, and compiled calls
RECURSIVE JsonDims(_)
JsonDims(elements) ==
    IF elements = <<>> THEN <<>>
    ELSE LET e == Head(elements)
             t == IF "type" \in DOMAIN e THEN e.type ELSE "None"
         IN  (IF t = "literal" /\ e.value_type = "number"
              THEN <<[int |-> TRUE, v |-> e.value.whole]>>
              ELSE IF t = "call" THEN <<[int |-> FALSE, v |-> 0]>>
              ELSE <<>>) \o JsonDims(Tail(elements))

WithoutRepeat(container) ==
    [attributes |-> [k \in DOMAIN container.attributes \ {repeat_by} |->
                        container.attributes[k]],
     children_def |-> IF "children_def" \in DOMAIN container
                      THEN container.children_def ELSE <<>>]

RECURSIVE JsonWidget(_, _, _, _)
RECURSIVE expand_repeat_by(_, _, _, _)
JsonWidget(a, name, container, depth) ==
    LET attrs == container.attributes
        type_val == attrs[type_attr]
        typed == /\ type_attr \in DOMAIN attrs /\ type_val.type = "literal"
                 /\ type_val.value_type = "string"
        missing == /\ typed /\ type_val.value \in DOMAIN TYPE_REQUIREMENTS
                   /\ ~(TYPE_REQUIREMENTS[type_val.value] \subseteq DOMAIN attrs)
        defs == IF "children_def" \in DOMAIN container THEN container.children_def ELSE <<>>
        named == (IF children \in DOMAIN attrs /\ attrs[children].type = "array"
                  THEN JsonChildNodes(a, attrs[children].elements) ELSE <<>>)
                 \o [k \in 1..Len(defs) |-> [name |-> defs[k].name, node |-> defs[k]]]
        kids == [k \in 1..Len(named) |->
                    JsonWidget(a, named[k].name, named[k].node, depth + 1)]
        widget_type ==
            IF children \in DOMAIN attrs \/ defs # <<>> THEN "Column"
            ELSE IF /\ scrollable \in DOMAIN attrs /\ attrs[scrollable].type = "literal"
                    /\ attrs[scrollable].value_type = "boolean" /\ attrs[scrollable].value
            THEN "ListView"
            ELSE IF typed /\ type_val.value = button
            THEN "ElevatedButton"
            ELSE IF typed /\ type_val.value = input THEN "TextField"
            ELSE IF typed /\ type_val.value = icon THEN "Icon"
            ELSE IF typed /\ type_val.value = search_bar
            THEN "SearchBar"
            ELSE IF typed /\ type_val.value = link THEN "InkWell"
            ELSE IF typed /\ type_val.value = scroller
            THEN "SingleChildScrollView"
            ELSE "Container"
    IN  IF depth > RecursionLimit THEN JsonError("RecursionError")
        ELSE IF repeat_by \in DOMAIN attrs THEN expand_repeat_by(a, name, container, depth)
        ELSE IF missing THEN JsonError("SyntaxError")
        ELSE IF FirstJsonError(kids) # <<>> THEN FirstJsonError(kids)
        ELSE IF kids = <<>> THEN [name |-> name, widget |-> widget_type]
        ELSE [name |-> name, widget |-> widget_type, children |-> kids]

expand_repeat_by(a, name, container, depth) ==
    LET repeat_expr == container.attributes[repeat_by]
        dimensions == JsonDims(repeat_expr.elements)
        static == \A k \in 1..Len(dimensions) : dimensions[k].int
        d1 == dimensions[1].v
        d2 == dimensions[2].v
        d3 == dimensions[3].v
        Instance(suffix) == JsonWidget(a, name \o suffix, WithoutRepeat(container), depth + 1)
        \* rows, cols = dimensions; for x in range(cols): for y in range(rows)
        grid == [k \in 1..(d1 * d2) |->
                    Instance(<<"_", "X">> \o Str((k - 1) \div d1)
                             \o <<"Y">> \o Str((k - 1) % d1))]
        \* cols, rows, depth = dimensions; x, then y, then z
        cube == [k \in 1..(d1 * d2 * d3) |->
                    Instance(<<"_", "X">> \o Str((k - 1) \div (d2 * d3))
                             \o <<"Y">> \o Str(((k - 1) \div d3) % d2)
                             \o <<"Z">> \o Str((k - 1) % d3))]
        instances == IF Len(dimensions) = 2 THEN grid ELSE cube
        template == Instance(<<"_", "t", "e", "m", "p", "l", "a", "t", "e">>)
    IN  IF repeat_expr.type # "array" \/ Len(dimensions) \notin {2, 3}
        THEN JsonWidget(a, name, container, depth + 1)
        ELSE IF ~static
        THEN (IF IsJsonError(template) THEN template
              ELSE [name |-> name, widget |-> "DynamicRepeated", template |-> template])
        ELSE IF FirstJsonError(instances) # <<>> THEN FirstJsonError(instances)
        ELSE [name |-> name, widget |-> "Repeated", instances |-> instances]

\* generate(ast)["tree"]
JsonTree(a) ==
    IF a.main_container = None THEN [widget |-> "None"]
    ELSE JsonWidget(a, a.main_container, a.containers[a.main_container], 1)

(***************************************************************************)
(* IMPORT RESOLVER: Programs and the merge                                 *)
(***************************************************************************)
Names == {"x", "y"}
Kinds == {"variables", "functions", "containers"}
FileNames == {"a", "b"}

\* A declaration is identified by the file that wrote it.  A mapping of a
\* Program is a function from the declared names to their declarations.
ProgramOf(slots, origin, imports) ==
    [variables |-> [n \in {m \in Names : <<"variables", m>> \in slots} |-> origin],
     functions |-> [n \in {m \in Names : <<"functions", m>> \in slots} |-> origin],
     containers |-> [n \in {m \in Names : <<"containers", m>> \in slots} |-> origin],
     imports |-> imports,
     main_container |-> None]

\* dict.update: the keys of `other` replace those of `mapping`.
Update(mapping, other) == other @@ mapping

\* items == '*'
MergeAll(ast, imported_ast) ==
    [ast EXCEPT !.variables = Update(@, imported_ast.variables),
                !.functions = Update(@, imported_ast.functions),
                !.containers = Update(@, imported_ast.containers)]

\* Mutant: a listed name is merged into every mapping in which it is found.
MergeItem_Everywhere(ast, imported_ast, item) ==
    [ast EXCEPT
        !.variables = IF item \in DOMAIN imported_ast.variables
                      THEN Update(@, item :> imported_ast.variables[item]) ELSE @,
        !.functions = IF item \in DOMAIN imported_ast.functions
                      THEN Update(@, item :> imported_ast.functions[item]) ELSE @,
        !.containers = IF item \in DOMAIN imported_ast.containers
                       THEN Update(@, item :> imported_ast.containers[item]) ELSE @]

\* One listed name: variables, then functions, then containers, else nothing.
MergeItem(ast, imported_ast, item) ==
    IF item \in DOMAIN imported_ast.variables
    THEN [ast EXCEPT !.variables = Update(@, item :> imported_ast.variables[item])]
    ELSE IF item \in DOMAIN imported_ast.functions
    THEN [ast EXCEPT !.functions = Update(@, item :> imported_ast.functions[item])]
    ELSE IF item \in DOMAIN imported_ast.containers
    THEN [ast EXCEPT !.containers = Update(@, item :> imported_ast.containers[item])]
    ELSE ast

RECURSIVE MergeItems(_, _, _)
MergeItems(ast, imported_ast, items) ==
    IF items = <<>> THEN ast
    ELSE MergeItems(MergeItem(ast, imported_ast, Head(items)),
                    imported_ast, Tail(items))

Merge(ast, imported_ast, items) ==
    IF items = Wildcard THEN MergeAll(ast, imported_ast)
    ELSE MergeItems(ast, imported_ast, items)

\* The listed names that are in none of the three mappings of the module.
AbsentItems(imported_ast, items) ==
    IF items = Wildcard THEN {}
    ELSE {n \in Range(items) :
             /\ n \notin DOMAIN imported_ast.variables
             /\ n \notin DOMAIN imported_ast.functions
             /\ n \notin DOMAIN imported_ast.containers}

(***************************************************************************)
(* IMPORT RESOLVER: resolve_imports as a state machine.  A frame of        *)
(* `call_stack` is one active call: its ast and the index of the import node    *)
(* the for-loop is at.                                                     *)
(***************************************************************************)
Frame(ast) == [ast |-> ast, i |-> 1]

TopFrame == call_stack[Len(call_stack)]

LoopRunning == /\ imp_pc = "resolving"
               /\ call_stack # <<>>
               /\ TopFrame.i <= Len(TopFrame.ast.imports)

CurrentImport == TopFrame.ast.imports[TopFrame.i]

FileStatus(src) == IF src \in DOMAIN fs THEN fs[src].status ELSE "missing"

Advance(frames) ==
    [frames EXCEPT ![Len(frames)].i = @ + 1]

\* Parser.parse: ast = parse(tokens)
ParseTokens ==
    /\ lex_pc = "done"
    /\ imp_pc = "idle"
    /\ \E ast \in {parse(tokens)} :
          IF Raised(ast)
          THEN imp_pc' = "SyntaxError" /\ parsed' = parsed
          ELSE imp_pc' = "parsed" /\ parsed' = ast.node
    /\ UNCHANGED <<tree, fs, call_stack, swallowed, skipped, program>>

\* Parser.parse: ast = resolve_imports(ast, base_path)
ResolveCall ==
    /\ imp_pc = "parsed"
    /\ call_stack' = <<Frame(parsed)>>
    /\ imp_pc' = "resolving"
    /\ UNCHANGED <<tree, fs, parsed, swallowed, skipped, program>>

\* open(file_path) raises; `except: pass` goes on with the next import.
ImportOpenFail ==
    /\ LoopRunning
    /\ FileStatus(CurrentImport.source) = "missing"
    /\ swallowed' = swallowed \cup {"open"}
    /\ call_stack' = Advance(call_stack)
    /\ UNCHANGED <<tree, fs, parsed, skipped, program, imp_pc>>

\* tokenize(code) or parse(tokens) raises; `except: pass` goes on.
ImportParseFail ==
    /\ LoopRunning
    /\ FileStatus(CurrentImport.source) = "bad"
    /\ swallowed' = swallowed \cup {"parse"}
    /\ call_stack' = Advance(call_stack)
    /\ UNCHANGED <<tree, fs, parsed, skipped, program, imp_pc>>

\* The file is read and parsed: resolve_imports(imported_ast, import_base).
ImportEnter ==
    /\ LoopRunning
    /\ FileStatus(CurrentImport.source) = "ok"
    /\ Len(call_stack) < RecursionLimit
    /\ call_stack' = Append(call_stack, Frame(fs[CurrentImport.source].prog))
    /\ UNCHANGED <<tree, fs, parsed, swallowed, skipped, program, imp_pc>>

\* The nested call would exceed the interpreter's recursion limit: it raises
\* RecursionError inside the try, and `except: pass` goes on.
ImportOverflow ==
    /\ LoopRunning
    /\ FileStatus(CurrentImport.source) = "ok"
    /\ Len(call_stack) >= RecursionLimit
    /\ swallowed' = swallowed \cup {"RecursionError"}
    /\ call_stack' = Advance(call_stack)
    /\ UNCHANGED <<tree, fs, parsed, skipped, program, imp_pc>>

\* A nested call returns (ast['imports'] = []; return ast) and the caller
\* merges what it asked for.
ImportReturn ==
    /\ imp_pc = "resolving"
    /\ Len(call_stack) >= 2
    /\ TopFrame.i > Len(TopFrame.ast.imports)
    /\ LET imported_ast == [TopFrame.ast EXCEPT !.imports = <<>>]
           callers == SubSeq(call_stack, 1, Len(call_stack) - 1)
           caller == callers[Len(callers)]
           items == caller.ast.imports[caller.i].items
       IN  /\ call_stack' = Advance([callers EXCEPT ![Len(callers)].ast =
                                   Merge(@, imported_ast, items)])
           /\ skipped' = skipped \cup AbsentItems(imported_ast, items)
    /\ UNCHANGED <<tree, fs, parsed, swallowed, program, imp_pc>>

\* The outermost call returns to Parser.parse.
ResolveReturn ==
    /\ imp_pc = "resolving"
    /\ Len(call_stack) = 1
    /\ TopFrame.i > Len(TopFrame.ast.imports)
    /\ program' = [TopFrame.ast EXCEPT !.imports = <<>>]
    /\ call_stack' = <<>>
    /\ imp_pc' = "resolved"
    /\ UNCHANGED <<tree, fs, parsed, swallowed, skipped>>

\* Parser.parse: self.tree = generate(ast); return self.tree
ParserReturn ==
    /\ imp_pc = "resolved"
    /\ IF IsJsonError(JsonTree(program))
       THEN imp_pc' = JsonTree(program).widget /\ tree' = tree
       ELSE imp_pc' = "returned" /\ tree' = JsonTree(program)
    /\ UNCHANGED <<fs, parsed, call_stack, swallowed, skipped, program>>

(***************************************************************************)
(* ANALYZER: DartCodegen.analyze                                           *)
(***************************************************************************)
\* The integer dimensions of a repeat_by array: its number literals.
RECURSIVE DimsOf(_)
DimsOf(elements) ==
    IF elements = <<>> THEN <<>>
    ELSE LET e == Head(elements)
         IN  (IF TypeOf(e) = "literal"
                    /\ Get(e, "value_type", "None") = "number"
              THEN <<IntOf(e.value)>> ELSE <<>>) \o DimsOf(Tail(elements))

HasRepeatArray(container) ==
    /\ repeat_by \in DOMAIN container.attributes
    /\ TypeOf(container.attributes[repeat_by]) = "array"

\* Pass 1: name -> (rows, cols, rows * cols)
RepeatedContainers(a) ==
    LET static == {n \in DOMAIN a.containers :
                      /\ HasRepeatArray(a.containers[n])
                      /\ Len(DimsOf(a.containers[n].attributes[repeat_by].elements)) = 2}
    IN  [n \in static |->
            LET dims == DimsOf(a.containers[n].attributes[repeat_by].elements)
            IN  [rows |-> dims[1], cols |-> dims[2], count |-> dims[1] * dims[2]]]

\* The user function a container's on_click calls, None if there is none.
HandlerOf(a, cname) ==
    LET handler == Get(a.containers[cname].attributes, on_click, <<>>)
        func_ref == Get(handler, "function", <<>>)
        func_name == IF TypeOf(func_ref) = "var"
                     THEN Get(func_ref, "name", None) ELSE None
    IN  IF /\ TypeOf(handler) = "call"
           /\ func_name # None
           /\ func_name \in DOMAIN a.functions
           /\ a.functions[func_name].params # <<>>
        THEN func_name ELSE None

\* Pass 2, over the containers in dict order: func -> (first param -> container)
RECURSIVE ParamContainerMap(_, _, _)
ParamContainerMap(a, repeated, order) ==
    IF order = <<>> THEN <<>>
    ELSE LET cname == order[Len(order)]
             before == ParamContainerMap(a, repeated, SubSeq(order, 1, Len(order) - 1))
             f == IF cname \in DOMAIN repeated THEN HandlerOf(a, cname) ELSE None
         IN  IF f = None THEN before
             ELSE (f :> ((a.functions[f].params[1] :> cname) @@ Get(before, f, <<>>)))
                      @@ before

\* _base_name: the root identifier of a member-access chain
RECURSIVE BaseName(_)
BaseName(expr) ==
    IF TypeOf(expr) = "member" THEN BaseName(expr.object)
    ELSE IF TypeOf(expr) = "var" THEN expr.name
    ELSE None

\* The container name a modify_container target resolves to in scan.
ScanTarget(target, func_name, pcm) ==
    IF TypeOf(target) = "var"
    THEN Get(Get(pcm, func_name, <<>>), target.name, target.name)
    ELSE IF TypeOf(target) = "member" THEN BaseName(target)
    ELSE None

\* Pass 3, scan(stmts, func_name): the (container, attribute set) records
RECURSIVE Scan(_, _, _)
Scan(stmts, func_name, pcm) ==
    IF stmts = <<>> THEN {}
    ELSE LET stmt == Head(stmts)
             cname == IF TypeOf(stmt) = "modify_container"
                      THEN ScanTarget(stmt.target, func_name, pcm) ELSE None
             own == IF cname # None
                    THEN {[c |-> cname, attrs |-> AttrNames(stmt.attributes)]}
                    ELSE {}
         IN  own \cup Scan(Get(stmt, "then", <<>>), func_name, pcm)
                 \cup Scan(Get(stmt, "else", <<>>), func_name, pcm)
                 \cup Scan(Get(stmt, "body", <<>>), func_name, pcm)
                 \cup Scan(Tail(stmts), func_name, pcm)

\* modified_containers: container -> the attributes some function mutates
ModifiedContainers(a, pcm) ==
    LET found == UNION {Scan(a.functions[f].body, f, pcm) : f \in DOMAIN a.functions}
    IN  [c \in {r.c : r \in found} |-> UNION {r.attrs : r \in {q \in found : q.c = c}}]

\* Pass 4, find_calls(stmts, current_fname): the user functions called
RECURSIVE FindCalls(_, _, _)
FindCalls(a, stmts, current_fname) ==
    IF stmts = <<>> THEN {}
    ELSE LET stmt == Head(stmts)
             expr == Get(stmt, "expr", <<>>)
             fname == Get(Get(expr, "function", <<>>), "name", None)
             own == IF /\ TypeOf(stmt) = "expr_stmt"
                       /\ TypeOf(expr) = "call"
                       /\ fname # None
                       /\ fname \in DOMAIN a.functions
                       /\ fname # current_fname
                    THEN {fname} ELSE {}
         IN  own \cup FindCalls(a, Get(stmt, "then", <<>>), current_fname)
                 \cup FindCalls(a, Get(stmt, "else", <<>>), current_fname)
                 \cup FindCalls(a, Get(stmt, "body", <<>>), current_fname)
                 \cup FindCalls(a, Tail(stmts), current_fname)

CalledByFunctions(a) ==
    UNION {FindCalls(a, a.functions[f].body, f) : f \in DOMAIN a.functions}

(***************************************************************************)
(* EMITTER: function-level predicates                                      *)
(***************************************************************************)
\* Mutant: only the statements at the top level of the body count.
HasStateChanges_TopLevel(stmts) ==
    \E k \in 1..Len(stmts) : TypeOf(stmts[k]) \in {"assign", "modify_container"}

RECURSIVE HasStateChanges(_)
HasStateChanges(stmts) ==
    IF stmts = <<>> THEN FALSE
    ELSE LET stmt == Head(stmts)
         IN  \/ TypeOf(stmt) \in {"assign", "modify_container"}
             \/ HasStateChanges(Get(stmt, "then", <<>>))
             \/ HasStateChanges(Get(stmt, "else", <<>>))
             \/ HasStateChanges(Get(stmt, "body", <<>>))
             \/ HasStateChanges(Tail(stmts))

RECURSIVE ExprHasWait(_)
RECURSIVE AnyHasWait(_)
ExprHasWait(expr) ==
    \/ /\ TypeOf(expr) = "call"
       /\ TypeOf(Get(expr, "function", <<>>)) = "var"
       /\ Get(Get(expr, "function", <<>>), "name", None) = wait_sec
    \/ \E key \in {"left", "right", "operand", "object", "function",
                   "condition", "then", "else"} :
          key \in DOMAIN expr /\ ExprHasWait(expr[key])
    \/ AnyHasWait(Get(expr, "args", <<>>))

AnyHasWait(args) ==
    IF args = <<>> THEN FALSE
    ELSE ExprHasWait(Head(args)) \/ AnyHasWait(Tail(args))

\* _has_async_calls; a statement's `value` is an expression, never a list
RECURSIVE HasAsyncCalls(_)
HasAsyncCalls(stmts) ==
    IF stmts = <<>> THEN FALSE
    ELSE LET stmt == Head(stmts)
         IN  \/ /\ TypeOf(stmt) = "expr_stmt"
                /\ ExprHasWait(stmt.expr)
             \/ HasAsyncCalls(Get(stmt, "then", <<>>))
             \/ HasAsyncCalls(Get(stmt, "else", <<>>))
             \/ HasAsyncCalls(Get(stmt, "body", <<>>))
             \/ HasAsyncCalls(Tail(stmts))

(***************************************************************************)
(* EMITTER: expressions.  Emitted Dart is kept as a tree, one record per   *)
(* piece of text the generator formats.                                    *)
(***************************************************************************)
length == <<"l", "e", "n", "g", "t", "h">>
rgb == <<"r", "g", "b">>
random == <<"r", "a", "n", "d", "o", "m">>
visit == <<"v", "i", "s", "i", "t">>
play == <<"p", "l", "a", "y">>
text_content_style == text_content \o <<"_", "s", "t", "y", "l", "e">>

DNull == [d |-> "null"]
DName(n) == [d |-> "name", v |-> n]
DNum(n) == [d |-> "num", v |-> n]
\* cname_field[idx]
DStateAt(cname, field, idx) == [d |-> "state_at", list |-> <<cname, field>>, idx |-> idx]

\* re.match(r'X(\d+)Y(\d+)', field): the two groups, when the field starts so
CellMatch(field) ==
    LET xEnd == RunEnd(field, 2, Digits)
        yEnd == RunEnd(field, xEnd + 1, Digits)
    IN  IF /\ Len(field) >= 1 /\ field[1] = "X"
           /\ xEnd > 2
           /\ xEnd <= Len(field) /\ field[xEnd] = "Y"
           /\ yEnd > xEnd + 1
        THEN [ok |-> TRUE, x |-> IntOfDigits(SubSeq(field, 2, xEnd - 1)),
              y |-> IntOfDigits(SubSeq(field, xEnd + 1, yEnd - 1))]
        ELSE [ok |-> FALSE, x |-> 0, y |-> 0]

\* Mutant: the cell index taken column-major.
FlatIndex_ColumnMajor(x, y, rows, cols) == x * rows + y

\* y * cols + x
FlatIndex(x, y, rows, cols) == y * cols + x

\* _cell_index_from_member
CellIndexFromMember(expr, repeated) ==
    LET m == CellMatch(expr.field)
        base == BaseName(expr)
    IN  IF TypeOf(expr) = "member" /\ m.ok /\ base \in DOMAIN repeated
        THEN FlatIndex(m.x, m.y, repeated[base].rows, repeated[base].cols)
        ELSE 0

\* re.sub(r'\{([^}]+)\}', r'${\1}', v)
RECURSIVE Interpolate(_)
Interpolate(v) ==
    IF v = <<>> THEN <<>>
    ELSE LET close == RunEnd(v, 2, Range(v) \ {"}"})
         IN  IF Head(v) = "{" /\ close > 2 /\ close <= Len(v)
             THEN <<"$">> \o SubSeq(v, 1, close) \o Interpolate(SubSeq(v, close + 1, Len(v)))
             ELSE <<Head(v)>> \o Interpolate(Tail(v))

Tracked(modified, cname, field) ==
    cname \in DOMAIN modified /\ field \in modified[cname]

\* generate_expr under self.current_func = cf, self.cell_var_map = cvm and
\* self.in_repeat_context = irc; an = the analysis results
RECURSIVE GenExpr(_, _, _, _, _)
RECURSIVE GenExprs(_, _, _, _, _)
GenExprs(exprs, an, cf, cvm, irc) ==
    [k \in 1..Len(exprs) |-> GenExpr(exprs[k], an, cf, cvm, irc)]

GenExpr(expr, an, cf, cvm, irc) ==
    LET t == TypeOf(expr) IN
    IF t = "literal"
    THEN LET vt == Get(expr, "value_type", "None")
         IN  IF vt = "string" THEN [d |-> "str", v |-> Interpolate(expr.value)]
             ELSE IF vt = "boolean" THEN [d |-> "bool", v |-> expr.value]
             ELSE DNum(expr.value)
    ELSE IF t = "var" THEN DName(expr.name)
    ELSE IF t = "binary_op"
    THEN [d |-> "bin",
          op |-> IF expr.op = <<"a", "n", "d">> THEN <<"&", "&">>
                 ELSE IF expr.op = <<"o", "r">> THEN <<"|", "|">> ELSE expr.op,
          l |-> GenExpr(expr.left, an, cf, cvm, irc),
          r |-> GenExpr(expr.right, an, cf, cvm, irc)]
    ELSE IF t = "unary_op"
    THEN [d |-> "un", op |-> IF expr.op = <<"n", "o", "t">> THEN <<"!">> ELSE expr.op,
          e |-> GenExpr(expr.operand, an, cf, cvm, irc)]
    ELSE IF t = "call"
    THEN LET func == Get(expr, "function", <<>>)
             args == GenExprs(Get(expr, "args", <<>>), an, cf, cvm, irc)
             fname == IF TypeOf(func) = "var" THEN Get(func, "name", None) ELSE None
         IN  IF fname = length /\ args # <<>> THEN [d |-> "length", of |-> args[1]]
             ELSE IF fname = rgb /\ Len(args) = 3 THEN [d |-> "Color.fromRGBO", args |-> args]
             ELSE IF fname = random /\ Len(args) = 2 THEN [d |-> "Random", args |-> args]
             ELSE IF fname = wait_sec /\ Len(args) = 1
                  THEN [d |-> "await", seconds |-> args[1]]
             ELSE IF fname \in {visit, play} /\ Len(args) = 1
                  THEN [d |-> "print", what |-> fname, arg |-> args[1]]
             ELSE [d |-> "call", f |-> GenExpr(func, an, cf, cvm, irc), args |-> args]
    ELSE IF t = "member"
    THEN LET obj == expr.object
             field == expr.field
             vname == Get(obj, "name", None)
             params == Get(an.param_container_map, cf, <<>>)
             inner == Get(obj, "object", <<>>)
             cell == IF TypeOf(obj) = "member" THEN CellMatch(obj.field)
                     ELSE [ok |-> FALSE, x |-> 0, y |-> 0]
         IN  IF irc /\ TypeOf(obj) = "var" /\ vname = repeat_by /\ field = index
             THEN DName(index)
             ELSE IF /\ TypeOf(obj) = "var" /\ vname \in DOMAIN cvm
                     /\ Tracked(an.modified_containers, cvm[vname].c, field)
             THEN DStateAt(cvm[vname].c, field, DName(cvm[vname].idx))
             ELSE IF /\ TypeOf(obj) = "var" /\ cf # None /\ vname \in DOMAIN params
                     /\ Tracked(an.modified_containers, params[vname], field)
             THEN DStateAt(params[vname], field, DName(vname))
             ELSE IF /\ TypeOf(obj) = "member" /\ TypeOf(inner) = "var"
                     /\ inner.name \in DOMAIN an.repeated_containers
                     /\ cell.ok
             THEN DStateAt(inner.name, field,
                           DNum(FlatIndex(cell.x, cell.y,
                                          an.repeated_containers[inner.name].rows,
                                          an.repeated_containers[inner.name].cols)))
             ELSE [d |-> "dot", obj |-> GenExpr(obj, an, cf, cvm, irc), field |-> field]
    ELSE IF t = "index"
    THEN [d |-> "at", obj |-> GenExpr(expr.object, an, cf, cvm, irc),
          idx |-> GenExpr(expr.index, an, cf, cvm, irc)]
    ELSE IF t = "ternary"
    THEN [d |-> "cond", c |-> GenExpr(expr.condition, an, cf, cvm, irc),
          th |-> GenExpr(expr.then, an, cf, cvm, irc),
          el |-> GenExpr(expr.else, an, cf, cvm, irc)]
    ELSE IF t = "array"
    THEN [d |-> "list", elems |-> GenExprs(Get(expr, "elements", <<>>), an, cf, cvm, irc)]
    ELSE IF t = "object"
    THEN LET props == Get(expr, "properties", <<>>)
         IN  [d |-> "map",
              pairs |-> [k \in 1..Len(props) |->
                            Attr(props[k].name, GenExpr(props[k].value, an, cf, cvm, irc))]]
    ELSE IF t = "method_call"
    THEN [d |-> "method", obj |-> GenExpr(expr.object, an, cf, cvm, irc),
          method |-> IF expr.method = index THEN <<"i", "n", "d", "e", "x", "O", "f">>
                     ELSE expr.method,
          args |-> GenExprs(Get(expr, "args", <<>>), an, cf, cvm, irc)]
    ELSE DNull

(***************************************************************************)
(* EMITTER: statements and functions.  A line is a record: its indent and  *)
(* what the formatted text says.                                           *)
(***************************************************************************)
InferType(expr) ==
    LET t == TypeOf(expr)
        vt == Get(expr, "value_type", "None")
    IN  IF t = "literal" /\ vt = "boolean" THEN "bool"
        ELSE IF t = "literal" /\ vt = "number"
             THEN (IF expr.value.float THEN "double" ELSE "int")
        ELSE IF t = "literal" /\ vt = "string" THEN "String"
        ELSE IF t = "array" THEN "List"
        ELSE IF t = "object" THEN "Map<String, dynamic>"
        ELSE "dynamic"

\* The value written for one attribute of a modify_container on a cell.
CellValue(attr, val_expr, an, cf, cvm) ==
    IF attr = text_content_style /\ TypeOf(val_expr) = "array"
    THEN [d |-> "TextStyle", elements |-> val_expr.elements]
    ELSE GenExpr(val_expr, an, cf, cvm, FALSE)

\* cname_attr[idx] = val; for every attribute, in dict order
StateWrites(ind, cname, idx, attrs, an, cf, cvm) ==
    [k \in 1..Len(attrs) |->
        [ind |-> ind, l |-> "state_write", list |-> <<cname, attrs[k].name>>,
         idx |-> idx, value |-> CellValue(attrs[k].name, attrs[k].value, an, cf, cvm)]]

\* // modify vname.attr = val;
ModifyComments(ind, vname, attrs, an, cf, cvm) ==
    [k \in 1..Len(attrs) |->
        [ind |-> ind, l |-> "comment", name |-> vname, attr |-> attrs[k].name,
         value |-> GenExpr(attrs[k].value, an, cf, cvm, FALSE)]]

Idx == <<"I", "d", "x">>

\* for x in container.children, over a repeated container
IsCellLoop(stmt, an) ==
    /\ TypeOf(stmt.iterable) = "member"
    /\ stmt.iterable.field = children
    /\ TypeOf(stmt.iterable.object) = "var"
    /\ stmt.iterable.object.name \in DOMAIN an.repeated_containers

\* generate_statement, threading local_vars_declared[current_func]
RECURSIVE GenStatement(_, _, _, _, _, _, _)
RECURSIVE GenStatements(_, _, _, _, _, _, _)
\* Mutant: a statement does not see the names the one before it declared.
GenStatements_Forgetful(a, stmts, ind, an, cf, declared, cvm) ==
    IF stmts = <<>> THEN [lines |-> <<>>, declared |-> declared]
    ELSE LET first == GenStatement(a, Head(stmts), ind, an, cf, declared, cvm)
             rest == GenStatements(a, Tail(stmts), ind, an, cf, declared, cvm)
         IN  [lines |-> first.lines \o rest.lines,
              declared |-> first.declared \cup rest.declared]

GenStatements(a, stmts, ind, an, cf, declared, cvm) ==
    IF stmts = <<>> THEN [lines |-> <<>>, declared |-> declared]
    ELSE LET first == GenStatement(a, Head(stmts), ind, an, cf, declared, cvm)
             rest == GenStatements(a, Tail(stmts), ind, an, cf, first.declared, cvm)
         IN  [lines |-> first.lines \o rest.lines, declared |-> rest.declared]

GenStatement(a, stmt, ind, an, cf, declared, cvm) ==
    LET t == TypeOf(stmt)
        E(e) == GenExpr(e, an, cf, cvm, FALSE)
        Same(ls) == [lines |-> ls, declared |-> declared]
    IN
    IF t = "assign"
    THEN LET vname == Get(stmt.target, "name", None)
             func_params == Get(Get(a.functions, cf, <<>>), "params", <<>>)
         IN  IF /\ TypeOf(stmt.target) = "var"
                /\ vname \notin DOMAIN a.variables
                /\ vname \notin Range(func_params)
                /\ vname \notin declared
             THEN [lines |-> <<[ind |-> ind, l |-> "declare", dtype |-> InferType(stmt.value),
                                name |-> vname, value |-> E(stmt.value)]>>,
                   declared |-> declared \cup {vname}]
             ELSE Same(<<[ind |-> ind, l |-> "assign", target |-> E(stmt.target),
                          value |-> E(stmt.value)]>>)
    ELSE IF t = "expr_stmt"
    THEN Same(<<[ind |-> ind, l |-> "expr", e |-> E(stmt.expr)]>>)
    ELSE IF t = "return"
    THEN Same(<<[ind |-> ind, l |-> "return", e |-> E(stmt.value)]>>)
    ELSE IF t = "if"
    THEN LET th == GenStatements(a, stmt.then, ind + 1, an, cf, declared, cvm)
             el == GenStatements(a, Get(stmt, "else", <<>>), ind + 1, an, cf,
                                 th.declared, cvm)
         IN  [lines |-> <<[ind |-> ind, l |-> "if", cond |-> E(stmt.condition)]>>
                        \o th.lines
                        \o (IF Get(stmt, "else", <<>>) # <<>>
                            THEN <<[ind |-> ind, l |-> "else"]>> \o el.lines ELSE <<>>)
                        \o <<[ind |-> ind, l |-> "close"]>>,
              declared |-> el.declared]
    ELSE IF t = "for"
    THEN IF IsCellLoop(stmt, an)
         THEN LET cname == stmt.iterable.object.name
                  idx_var == stmt.var \o Idx
                  body == GenStatements(a, stmt.body, ind + 1, an, cf, declared,
                              (stmt.var :> [c |-> cname, idx |-> idx_var]) @@ cvm)
              IN  [lines |-> <<[ind |-> ind, l |-> "for_index", idx |-> idx_var,
                                count |-> an.repeated_containers[cname].count]>>
                             \o body.lines \o <<[ind |-> ind, l |-> "close"]>>,
                   declared |-> body.declared]
         ELSE LET body == GenStatements(a, stmt.body, ind + 1, an, cf, declared, cvm)
              IN  [lines |-> <<[ind |-> ind, l |-> "for_in", var |-> stmt.var,
                                iterable |-> E(stmt.iterable)]>>
                             \o body.lines \o <<[ind |-> ind, l |-> "close"]>>,
                   declared |-> body.declared]
    ELSE IF t = "modify_container"
    THEN LET target == stmt.target
             vname == Get(target, "name", None)
             params == Get(an.param_container_map, cf, <<>>)
         IN  IF TypeOf(target) = "var"
             THEN IF vname \in DOMAIN cvm
                  THEN Same(StateWrites(ind, cvm[vname].c, DName(cvm[vname].idx),
                                        stmt.attributes, an, cf, cvm))
                  ELSE IF cf # None /\ vname \in DOMAIN params
                  THEN Same(StateWrites(ind, params[vname], DName(vname),
                                        stmt.attributes, an, cf, cvm))
                  ELSE Same(ModifyComments(ind, vname, stmt.attributes, an, cf, cvm))
             ELSE IF /\ TypeOf(target) = "member"
                     /\ BaseName(target) \in DOMAIN an.repeated_containers
             THEN Same(StateWrites(ind, BaseName(target),
                                   DNum(CellIndexFromMember(target, an.repeated_containers)),
                                   stmt.attributes, an, cf, cvm))
             ELSE Same(<<>>)
    ELSE Same(<<>>)

\* Mutant: the loop variable is dropped at the end of the loop, whatever it
\* was bound to before.
RestoreCellVar_Pop(after, var_name, had, prev) ==
    [k \in DOMAIN after \ {var_name} |-> after[k]]

\* The restore at the end of a for-each over C.children: the variable is
\* popped when it had no binding before the loop, re-bound to prev otherwise
RestoreCellVar(after, var_name, had, prev) ==
    IF ~had THEN [k \in DOMAIN after \ {var_name} |-> after[k]]
    ELSE [k \in DOMAIN after \cup {var_name} |-> IF k = var_name THEN prev ELSE after[k]]

\* self.cell_var_map after generate_statement has run over stmts
RECURSIVE CellVarsAfter(_, _, _)
CellVarsAfter(stmts, an, cvm) ==
    IF stmts = <<>> THEN cvm
    ELSE LET stmt == Head(stmts)
             t == TypeOf(stmt)
             after ==
                 IF t = "if"
                 THEN CellVarsAfter(Get(stmt, "else", <<>>), an,
                                    CellVarsAfter(stmt.then, an, cvm))
                 ELSE IF t = "for" /\ IsCellLoop(stmt, an)
                 THEN LET var_name == stmt.var
                          had == var_name \in DOMAIN cvm
                          prev == IF had THEN cvm[var_name] ELSE None
                          bound == [k \in DOMAIN cvm \cup {var_name} |->
                                       IF k = var_name
                                       THEN [c |-> stmt.iterable.object.name,
                                             idx |-> var_name \o Idx]
                                       ELSE cvm[k]]
                      IN  RestoreCellVar(CellVarsAfter(stmt.body, an, bound),
                                         var_name, had, prev)
                 ELSE IF t = "for" THEN CellVarsAfter(stmt.body, an, cvm)
                 ELSE cvm
         IN  CellVarsAfter(Tail(stmts), an, after)

\* self.current_func after generate_function(func_name, ...) has returned
FuncAfter(cf, func_name) ==
    LET prev_func == cf
        entered == func_name
    IN  prev_func

\* int p for a cell parameter, dynamic p otherwise
ParamStrs(func_name, params, pcm) ==
    [k \in 1..Len(params) |->
        [dtype |-> IF func_name \in DOMAIN pcm /\ params[k] \in DOMAIN pcm[func_name]
                   THEN "int" ELSE "dynamic",
         name |-> params[k]]]

\* generate_function: the lines, and local_vars_declared[func_name] after it
GenFunction(a, func_name, func_node, an) ==
    LET has_state == HasStateChanges(func_node.body)
        is_internal == func_name \in an.called_by_functions
        is_async == HasAsyncCalls(func_node.body)
        wrapped == has_state /\ ~is_internal
        body == GenStatements(a, func_node.body, IF wrapped THEN 3 ELSE 2, an,
                              func_name, {}, <<>>)
    IN  [lines |-> <<[ind |-> 1, l |-> "function",
                      func_type |-> IF is_async THEN "Future<void>" ELSE "void",
                      name |-> func_name,
                      params |-> ParamStrs(func_name, func_node.params,
                                           an.param_container_map),
                      async |-> is_async]>>
                   \o (IF wrapped THEN <<[ind |-> 2, l |-> "setState"]>> ELSE <<>>)
                   \o body.lines
                   \o (IF wrapped THEN <<[ind |-> 2, l |-> "end_setState"]>> ELSE <<>>)
                   \o <<[ind |-> 1, l |-> "end_function"]>>,
         declared |-> body.declared]

(***************************************************************************)
(* EMITTER: widgets.  The widget tree is kept with its structure, its      *)
(* state reads and its handlers; layout and paint properties (width,       *)
(* height, color, shape, align, margin) are not part of the model.         *)
(***************************************************************************)

Overflow == [w |-> "RecursionError"]
AnyOverflow(ws) == \E k \in 1..Len(ws) : ws[k].w = "RecursionError"

\* collect_children: the (name, node) pairs of the children array, then of
\* the nested definitions
RECURSIVE NamedChildren(_, _)
NamedChildren(a, elements) ==
    IF elements = <<>> THEN <<>>
    ELSE LET elem == Head(elements)
         IN  (IF TypeOf(elem) = "var" /\ elem.name \in DOMAIN a.containers
              THEN <<[name |-> elem.name, node |-> a.containers[elem.name]]>>
              ELSE <<>>) \o NamedChildren(a, Tail(elements))

collect_children(a, container) ==
    LET children_expr == Get(container.attributes, children, <<>>)
        defs == Get(container, "children_def", <<>>)
    IN  (IF TypeOf(children_expr) = "array"
         THEN NamedChildren(a, children_expr.elements) ELSE <<>>)
        \o [k \in 1..Len(defs) |-> [name |-> defs[k].name, node |-> defs[k]]]

determine_widget_type(container) ==
    LET attrs == container.attributes
        tv == Get(attrs, type_attr, <<>>)
        type_value == IF TypeOf(tv) = "literal" /\ Get(tv, "value_type", "None") = "string"
                      THEN tv.value
                      ELSE IF TypeOf(tv) = "var" THEN tv.name ELSE None
        sv == Get(attrs, scrollable, <<>>)
    IN  IF type_value = button THEN "ElevatedButton"
        ELSE IF type_value = input THEN "TextField"
        ELSE IF /\ TypeOf(sv) = "literal"
                /\ Get(sv, "value_type", "None") = "boolean" /\ sv.value
        THEN "ListView"
        ELSE IF children \in DOMAIN attrs \/ Get(container, "children_def", <<>>) # <<>>
        THEN "Column"
        ELSE IF text_content \in DOMAIN attrs THEN "Text"
        ELSE "Container"

\* generate_text_style
TextStyle(attrs) ==
    LET style_expr == Get(attrs, text_content_style, <<>>)
    IN  IF TypeOf(style_expr) = "array"
        THEN [d |-> "TextStyle", elements |-> style_expr.elements] ELSE DNull

\* wrap_with_props
WrapWithProps(widget, attrs, an) ==
    IF visibility \in DOMAIN attrs
    THEN [w |-> "Visibility", visible |-> GenExpr(attrs[visibility], an, None, <<>>, FALSE),
          child |-> widget]
    ELSE widget

\* _cell_handler
CellHandler(on_click_expr) ==
    IF TypeOf(on_click_expr) = "call"
    THEN [d |-> "closure",
          call |-> Get(on_click_expr.function, "name", <<"u", "n", "k", "n", "o", "w", "n">>),
          arg |-> index]
    ELSE DNull

\* generate_cell_widget, under in_repeat_context = True
GenCellWidget(container_name, attrs, has_state, an) ==
    LET Lifted(prop) == has_state /\ Tracked(an.modified_containers, container_name, prop)
        text_str == IF Lifted(text_content)
                    THEN DStateAt(container_name, text_content, DName(index))
                    ELSE GenExpr(attrs[text_content], an, None, <<>>, TRUE)
        style == IF Lifted(text_content_style)
                 THEN DStateAt(container_name, text_content_style, DName(index))
                 ELSE TextStyle(attrs)
        cell == IF text_content \in DOMAIN attrs
                THEN [w |-> "Container",
                      child |-> [w |-> "Center",
                                 child |-> [w |-> "Column",
                                            children |-> <<[w |-> "Text", text |-> text_str,
                                                            style |-> style]>>]]]
                ELSE [w |-> "Container"]
    IN  IF on_click \in DOMAIN attrs
        THEN [w |-> "GestureDetector", onTap |-> CellHandler(attrs[on_click]),
              child |-> cell]
        ELSE cell

\* self.in_repeat_context after generate_cell_widget has returned, by the
\* return with a GestureDetector or by the last one
CellContextAfter(irc, attrs) ==
    LET prev_repeat == irc
        entered == TRUE
    IN  IF on_click \in DOMAIN attrs THEN prev_repeat ELSE prev_repeat

\* self.in_repeat_context after the cell widgets of the repeated containers
\* have been generated
RECURSIVE RepeatContextAfter(_, _, _, _)
RepeatContextAfter(names, a, an, irc) ==
    IF names = <<>> THEN irc
    ELSE RepeatContextAfter(Tail(names), a, an,
             IF Head(names) \in DOMAIN an.repeated_containers
             THEN CellContextAfter(irc, a.containers[Head(names)].attributes)
             ELSE irc)

\* The attributes without repeat_by
TemplateAttrs(attrs) == [k \in DOMAIN attrs \ {repeat_by} |-> attrs[k]]

\* generate_widget and the generate_*_widget it dispatches to; depth counts
\* the nested generate_widget calls on the interpreter's stack
RECURSIVE GenWidget(_, _, _, _, _)
GenWidget(a, an, name, container, depth) ==
    LET attrs == container.attributes
        kids == collect_children(a, container)
        Sub(k) == GenWidget(a, an, kids[k].name, kids[k].node, depth + 1)
        all == [k \in 1..Len(kids) |-> Sub(k)]
        container_widget ==
            IF kids = <<>> THEN [w |-> "Container"]
            ELSE IF Sub(1).w = "RecursionError" THEN Overflow
            ELSE [w |-> "Container", child |-> Sub(1)]
        repeat_expr == Get(attrs, repeat_by, <<>>)
        dims == IF TypeOf(repeat_expr) = "array" THEN DimsOf(repeat_expr.elements) ELSE <<>>
        wtype == determine_widget_type(container)
    IN
    IF depth > RecursionLimit THEN Overflow
    ELSE IF repeat_by \in DOMAIN attrs
    THEN IF Len(dims) # 2 THEN container_widget
         ELSE [w |-> "GridView.count", crossAxisCount |-> dims[2],
               generate |-> dims[1] * dims[2],
               cell |-> GenCellWidget(name, TemplateAttrs(attrs),
                                      name \in DOMAIN an.modified_containers, an)]
    ELSE IF wtype = "Column"
    THEN IF kids = <<>> THEN [w |-> "Container"]
         ELSE IF AnyOverflow(all) THEN Overflow
         ELSE WrapWithProps([w |-> "Column", children |-> all], attrs, an)
    ELSE IF wtype = "Text"
    THEN WrapWithProps(
             [w |-> "Text",
              text |-> IF /\ name \in DOMAIN an.repeated_containers
                          /\ Tracked(an.modified_containers, name, text_content)
                       THEN DStateAt(name, text_content, DName(index))
                       ELSE GenExpr(Get(attrs, text_content, StrLit(<<>>)), an, None,
                                    <<>>, FALSE),
              style |-> TextStyle(attrs)], attrs, an)
    ELSE IF wtype = "ElevatedButton"
    THEN [w |-> "ElevatedButton",
          onPressed |-> IF on_click \in DOMAIN attrs
                        THEN [d |-> "closure_of",
                              e |-> GenExpr(attrs[on_click], an, None, <<>>, FALSE)]
                        ELSE DNull,
          child |-> [w |-> "Text",
                     text |-> GenExpr(Get(attrs, text_content, StrLit(<<"B", "u", "t", "t", "o", "n">>)), an, None,
                                      <<>>, FALSE),
                     style |-> TextStyle(attrs)]]
    ELSE IF wtype = "TextField"
    THEN [w |-> "TextField",
          hintText |-> GenExpr(Get(attrs, placeholder,
                                   StrLit(<<"E", "n", "t", "e", "r", " ", "t", "e", "x", "t">>)), an, None,
                               <<>>, FALSE)]
    ELSE IF wtype = "ListView"
    THEN IF kids = <<>> THEN [w |-> "ListView", children |-> <<>>]
         ELSE IF AnyOverflow(all) THEN Overflow
         ELSE [w |-> "ListView", children |-> all]
    ELSE container_widget

(***************************************************************************)
(* DartCodegen as a state machine: the constructor, then the sections of   *)
(* generate_app_widget                                                     *)
(***************************************************************************)
\* The four side tables, as the emitter reads them from self
An == [repeated_containers |-> repeated_containers,
       param_container_map |-> param_container_map,
       modified_containers |-> modified_containers,
       called_by_functions |-> called_by_functions]

\* codegen = DartCodegen(self_ast): __init__, which ends in analyze()
NewCodegen ==
    /\ imp_pc = "returned"
    /\ cg_pc = "idle"
    /\ self_ast' = program
    /\ repeated_containers' = RepeatedContainers(program)
    /\ param_container_map' =
           ParamContainerMap(program, RepeatedContainers(program), program.container_names)
    /\ modified_containers' =
           ModifiedContainers(program,
               ParamContainerMap(program, RepeatedContainers(program),
                                 program.container_names))
    /\ called_by_functions' = CalledByFunctions(program)
    /\ current_func' = None
    /\ local_vars_declared' = <<>>
    /\ cell_var_map' = <<>>
    /\ in_repeat_context' = FALSE
    /\ cg_pc' = "analyzed"
    /\ UNCHANGED <<dart, func_i>>

list_elem_type(prop) ==
    IF prop = text_content THEN "String"
    ELSE IF prop = visibility THEN "bool"
    ELSE IF prop = <<"c", "o", "l", "o", "r">> THEN "Color?"
    ELSE IF prop = text_content_style THEN "TextStyle?"
    ELSE "dynamic"

list_default(prop) ==
    IF prop = text_content THEN "\"\""
    ELSE IF prop = visibility THEN "true"
    ELSE "null"

\* List<dtype> cname_prop = List.filled(count, default, growable: false);
StateLists(an) ==
    UNION {{[list |-> <<cname, prop>>, dtype |-> list_elem_type(prop),
             filled |-> an.repeated_containers[cname].count,
             default |-> list_default(prop)] : prop \in an.modified_containers[cname]} :
           cname \in DOMAIN an.repeated_containers \cap DOMAIN an.modified_containers}

\* generate_app_widget: the global state variables and the state lists
AppWidgetState ==
    /\ cg_pc = "analyzed"
    /\ dart' = [variables |-> [vname \in DOMAIN self_ast.variables |->
                                  [dtype |-> InferType(self_ast.variables[vname].value),
                                   init |-> GenExpr(self_ast.variables[vname].value, An,
                                                    current_func, cell_var_map,
                                                    in_repeat_context)]],
                state_lists |-> StateLists(An),
                functions |-> <<>>,
                build |-> <<>>]
    /\ func_i' = 1
    /\ cg_pc' = "functions"
    /\ UNCHANGED <<self_ast, analysisVars, current_func, local_vars_declared, cell_var_map,
                   in_repeat_context>>

\* generate_app_widget: one turn of the loop over ast['functions']
AppWidgetFunction ==
    /\ cg_pc = "functions"
    /\ func_i <= Len(self_ast.function_names)
    /\ LET fname == self_ast.function_names[func_i]
           out == GenFunction(self_ast, fname, self_ast.functions[fname], An)
       IN  /\ dart' = [dart EXCEPT !.functions = Append(@, out.lines)]
           /\ local_vars_declared' = (fname :> out.declared) @@ local_vars_declared
           /\ current_func' = FuncAfter(current_func, fname)
           /\ cell_var_map' = CellVarsAfter(self_ast.functions[fname].body, An, cell_var_map)
    /\ func_i' = func_i + 1
    /\ UNCHANGED <<self_ast, analysisVars, in_repeat_context, cg_pc>>

\* generate_app_widget: build()
AppWidgetBuild ==
    /\ cg_pc = "functions"
    /\ func_i > Len(self_ast.function_names)
    /\ LET mn == self_ast.main_container
           widget == IF mn = None THEN [w |-> "Text", text |-> "No main container"]
                     ELSE GenWidget(self_ast, An, mn, self_ast.containers[mn], 1)
       IN  IF widget.w = "RecursionError"
           THEN cg_pc' = "RecursionError" /\ dart' = dart
           ELSE cg_pc' = "done" /\ dart' = [dart EXCEPT !.build = widget]
    /\ in_repeat_context' = RepeatContextAfter(self_ast.container_names, self_ast, An,
                                                in_repeat_context)
    /\ UNCHANGED <<self_ast, analysisVars, current_func, local_vars_declared, cell_var_map,
                   func_i>>

(***************************************************************************)
(* Initial states and specifications                                       *)
(***************************************************************************)
\* The source texts of the lexer specification: every line is an indent of
\* 0..MaxIndent blanks followed by one of the bodies.
LexBodies == {<<>>, <<"a">>, <<"<", "#">>}
LexLines == {Spaces(n) \o b : n \in 0..MaxIndent, b \in LexBodies}
LexSources == SeqsUpTo(LexLines, MaxLines)

\* The file systems of the import specification: the root file imports from
\* "a" and "b"; "a" may import from "b".
Slots == Kinds \X Names
DeclSets == {S \in SUBSET Slots : Cardinality(S) <= MaxDecls}
ItemLists == {Wildcard, <<"x">>, <<"y">>, <<"x", "y">>}
ImportNodes(sources) == {[source |-> f, items |-> it] : f \in sources, it \in ItemLists}
FileA == {[status |-> st, prog |-> ProgramOf({}, "a", <<>>)] : st \in {"missing", "bad"}}
         \cup {[status |-> "ok", prog |-> ProgramOf(S, "a", imps)] :
                  S \in DeclSets,
                  imps \in SeqsUpTo(ImportNodes({"b"}), 1)}
FileB == {[status |-> "ok", prog |-> ProgramOf({<<"variables", "x">>, <<"functions", "y">>}, "b", <<>>)]}
RootPrograms == {ProgramOf(S, "main", imps) :
                    S \in DeclSets,
                    imps \in SeqsUpTo(ImportNodes({"a"}), MaxImports)}

LexIdle ==
    /\ source = <<>>
    /\ lines = <<>>
    /\ line_map = <<>>
    /\ line_num = 0
    /\ indent_stack = <<0>>
    /\ tokens = <<>>
    /\ lex_pc = "idle"

ImpIdle ==
    /\ fs = <<>>
    /\ parsed = <<>>
    /\ call_stack = <<>>
    /\ swallowed = {}
    /\ skipped = {}
    /\ program = <<>>
    /\ tree = <<>>
    /\ imp_pc = "idle"

CgIdle ==
    /\ self_ast = <<>>
    /\ repeated_containers = <<>>
    /\ param_container_map = <<>>
    /\ modified_containers = <<>>
    /\ called_by_functions = {}
    /\ current_func = None
    /\ local_vars_declared = <<>>
    /\ cell_var_map = <<>>
    /\ in_repeat_context = FALSE
    /\ dart = <<>>
    /\ func_i = 0
    /\ cg_pc = "idle"

InitLex ==
    /\ source \in LexSources
    /\ lines = <<>>
    /\ line_map = <<>>
    /\ line_num = 0
    /\ indent_stack = <<0>>
    /\ tokens = <<>>
    /\ lex_pc = "start"
    /\ ImpIdle
    /\ CgIdle

NextLex ==
    /\ (TokStart \/ TokLine \/ TokEnd)
    /\ UNCHANGED <<impVars, cgVars>>

SpecLex == InitLex /\ [][NextLex]_vars

InitImp ==
    /\ fs \in [a : FileA, b : FileB]
    /\ parsed \in RootPrograms
    /\ call_stack = <<>>
    /\ swallowed = {}
    /\ skipped = {}
    /\ program = <<>>
    /\ tree = <<>>
    /\ imp_pc = "parsed"
    /\ LexIdle
    /\ CgIdle

NextImp ==
    /\ \/ ResolveCall
       \/ ImportOpenFail
       \/ ImportParseFail
       \/ ImportEnter
       \/ ImportReturn
       \/ ResolveReturn
       \/ ParserReturn
    /\ UNCHANGED <<lexVars, cgVars>>

SpecImp == InitImp /\ [][NextImp]_vars

(***************************************************************************)
(* Programs handed to the code generator                                   *)
(***************************************************************************)
id_g == <<"g">>
id_f == <<"f">>
id_h == <<"h">>
id_c == <<"c">>
id_v == <<"v">>
id_w == <<"w">>
id_p == <<"p">>
id_q == <<"q">>
id_n == <<"n">>
id_cell == <<"c", "e", "l", "l">>
id_items == <<"i", "t", "e", "m", "s">>

Prog(variables, functions, function_names, containers, container_names, main) ==
    [variables |-> variables, functions |-> functions, containers |-> containers,
     imports |-> <<>>, main_container |-> main,
     container_names |-> container_names, function_names |-> function_names]

GlobalV == id_v :> [value |-> NumLit(0)]
TextX == <<Attr(text_content, StrLit(<<"X">>))>>
CellName(x, y) == <<"X">> \o Str(x) \o <<"Y">> \o Str(y)
Visit == ExprStmt(Call(Var(visit), <<StrLit(<<"u">>)>>))

\* One more block around a statement: if-then, if-else, for-body
Wrap(kind, stmt) ==
    IF kind = "then" THEN If(Var(id_v), <<stmt>>, <<>>)
    ELSE IF kind = "else" THEN If(Var(id_v), <<Visit>>, <<stmt>>)
    ELSE For(<<"i">>, Var(id_items), <<stmt>>)

RECURSIVE Nest(_, _)
Nest(path, stmt) == IF path = <<>> THEN stmt ELSE Wrap(Head(path), Nest(Tail(path), stmt))

NestPaths == SeqsUpTo({"then", "else", "body"}, MaxNest)

GridContainer(dims) ==
    Container((repeat_by :> Arr([k \in 1..Len(dims) |-> NumLit(dims[k])]))
                  @@ (text_content :> StrLit(<<>>))
                  @@ (on_click :> Call(Var(id_f), <<Var(index)>>)), <<>>)

\* A handler f(c) of grid g whose body holds one statement at some depth
Leaves ==
    <<Modify(Var(id_g), TextX), Modify(Var(id_c), TextX),
      Modify(Member(Var(id_g), CellName(1, 0)), TextX),
      For(id_cell, Member(Var(id_g), children), <<Modify(Var(id_cell), TextX)>>),
      Assign(Var(id_v), NumLit(1)), Assign(Var(id_w), NumLit(1)),
      ExprStmt(Call(Var(wait_sec), <<NumLit(1)>>)), Visit,
      Assign(Var(id_w), Member(Member(Var(id_g), CellName(1, 0)), text_content))>>

NestDims == {<<2, MaxDim>>, <<2, 2, 2>>}

NestProgram(path, leaf, dims) ==
    Prog(GlobalV, id_f :> FuncNode(<<id_c>>, <<Nest(path, leaf)>>), <<id_f>>,
         id_g :> GridContainer(dims), <<id_g>>, id_g)

\* A grid of every shape, one cell written and read through its member path
GridProgram(rc, xy) ==
    Prog(<<>>,
         id_f :> FuncNode(<<>>,
                    <<Modify(Member(Var(id_g), CellName(xy[1], xy[2])), TextX),
                      Assign(Var(id_w), Member(Member(Var(id_g), CellName(xy[1], xy[2])),
                                               text_content))>>),
         <<id_f>>, id_g :> GridContainer(rc), <<id_g>>, id_g)

\* f calls h, or itself, or nobody, the call standing in one position
CallH == Call(Var(id_h), <<>>)
CallSites ==
    <<ExprStmt(CallH), Assign(Var(id_v), CallH), If(CallH, <<Visit>>, <<>>), Return(CallH),
      ExprStmt(Call(Var(visit), <<CallH>>)), ExprStmt(Call(Var(id_f), <<>>)), Visit>>

CallProgram(path, site) ==
    Prog(GlobalV,
         (id_f :> FuncNode(<<>>, <<Nest(path, site)>>))
             @@ (id_h :> FuncNode(<<>>, <<Assign(Var(id_v), NumLit(1))>>)),
         <<id_f, id_h>>, id_p :> Container(text_content :> StrLit(<<"t">>), <<>>),
         <<id_p>>, id_p)

\* Two containers, each listing any of the two as children, directly or
\* through a nested definition
ChildLists == {<<>>, <<id_p>>, <<id_q>>, <<id_p, id_q>>}
Node(kids) ==
    IF kids = <<>> THEN Container(text_content :> StrLit(<<"t">>), <<>>)
    ELSE Container(children :> Arr([k \in 1..Len(kids) |-> Var(kids[k])]), <<>>)
Nested(kids) ==
    Container(text_content :> StrLit(<<"t">>),
              <<[name |-> id_n, attributes |-> Node(kids).attributes,
                 children_def |-> <<>>]>>)

GraphProgram(kp, kq, viaDef, main) ==
    Prog(<<>>, <<>>, <<>>,
         (id_p :> (IF viaDef THEN Nested(kp) ELSE Node(kp))) @@ (id_q :> Node(kq)),
         <<id_p, id_q>>, main)

\* f holds a wait_sec call in one position, at some depth, or calls h,
\* which waits
CallWait == Call(Var(wait_sec), <<NumLit(1)>>)
WaitSites ==
    <<ExprStmt(CallWait), Assign(Var(id_w), CallWait), If(CallWait, <<Visit>>, <<>>),
      ExprStmt(Call(Var(visit), <<CallWait>>)), Return(CallWait), ExprStmt(CallH), Visit>>

WaitProgram(path, site) ==
    Prog(GlobalV,
         (id_f :> FuncNode(<<>>, <<Nest(path, site)>>))
             @@ (id_h :> FuncNode(<<>>, <<ExprStmt(CallWait)>>)),
         <<id_f, id_h>>, id_p :> Container(text_content :> StrLit(<<"t">>), <<>>),
         <<id_p>>, id_p)

\* One container whose repeat_by is an array of up to MaxDim elements, each
\* an integer, a float, a variable or a call, or is no array at all
RepeatElems == <<NumLit(2), Lit(Float(2, 5), "number"), Var(id_v), Call(Var(random), <<>>)>>
RepeatArrays ==
    {Arr([k \in 1..Len(ix) |-> RepeatElems[ix[k]]]) : ix \in SeqsUpTo(1..Len(RepeatElems), MaxDim)}

RepeatProgram(repeat_expr) ==
    Prog(GlobalV, <<>>, <<>>,
         id_g :> Container((repeat_by :> repeat_expr) @@ (text_content :> StrLit(<<"a">>)),
                           <<>>),
         <<id_g>>, id_g)

\* The handler f(c) of a grid sets some of the cell's text, text style and
\* visibility through its parameter
LiftAttrs ==
    <<Attr(text_content, StrLit(<<"X">>)), Attr(text_content_style, Arr(<<>>)),
      Attr(visibility, BoolLit(FALSE))>>
LiftChoices == (SUBSET (1..Len(LiftAttrs))) \ {{}}

RECURSIVE Chosen(_, _)
Chosen(attrs, picked) ==
    IF attrs = <<>> THEN <<>>
    ELSE (IF Len(LiftAttrs) - Len(attrs) + 1 \in picked THEN <<Head(attrs)>> ELSE <<>>)
             \o Chosen(Tail(attrs), picked)

LiftProgram(picked) ==
    Prog(<<>>,
         id_f :> FuncNode(<<id_c>>,
                          <<Nest(<<"then">>, Modify(Var(id_c), Chosen(LiftAttrs, picked)))>>),
         <<id_f>>, id_g :> GridContainer(<<2, MaxDim>>), <<id_g>>, id_g)

\* f(c) assigns up to MaxDim times, each time to the top-level v, to its
\* parameter c or to the local w, the first assignment standing in the body
\* or in a then-block; h assigns the local w as well
DeclTargets == <<id_v, id_c, id_w>>
DeclBodies == SeqsUpTo(1..Len(DeclTargets), MaxDim) \ {<<>>}
AssignTo(ix, nested) ==
    [k \in 1..Len(ix) |->
        IF k = 1 /\ nested
        THEN Nest(<<"then">>, Assign(Var(DeclTargets[ix[k]]), NumLit(k)))
        ELSE Assign(Var(DeclTargets[ix[k]]), NumLit(k))]

DeclProgram(ix, nested) ==
    Prog(GlobalV,
         (id_f :> FuncNode(<<id_c>>, AssignTo(ix, nested)))
             @@ (id_h :> FuncNode(<<>>, <<Assign(Var(id_w), StrLit(<<"s">>))>>)),
         <<id_f, id_h>>, id_p :> Container(text_content :> StrLit(<<"t">>), <<>>),
         <<id_p>>, id_p)

\* f(c) walks the cells of grid g and writes each one; a second loop over
\* the cells, under the same variable, under the parameter's name or under
\* another one, stands in its body before or after the write
InnerVars == <<id_cell, id_c, id_w>>
LoopOver(var_name, body) == For(var_name, Member(Var(id_g), children), body)
LoopBody(inner, first) ==
    IF inner = 0 THEN <<Modify(Var(id_cell), TextX)>>
    ELSE IF first
    THEN <<LoopOver(InnerVars[inner], <<Modify(Var(InnerVars[inner]), TextX)>>),
           Modify(Var(id_cell), TextX)>>
    ELSE <<Modify(Var(id_cell), TextX),
           LoopOver(InnerVars[inner], <<Modify(Var(InnerVars[inner]), TextX)>>)>>

LoopProgram(inner, first) ==
    Prog(GlobalV, id_f :> FuncNode(<<id_c>>, <<LoopOver(id_cell, LoopBody(inner, first))>>),
         <<id_f>>, id_g :> GridContainer(<<2, 2>>), <<id_g>>, id_g)

\* Grid g taps f(index); f and h assign the top-level v, write the tapped
\* cell, call each other or do neither
HandlerBodies ==
    <<<<ExprStmt(CallH)>>, <<Assign(Var(id_v), NumLit(1))>>,
      <<Assign(Var(id_v), NumLit(1)), ExprStmt(CallH)>>, <<Modify(Var(id_c), TextX)>>>>
HelperBodies ==
    <<<<Assign(Var(id_v), NumLit(1))>>, <<ExprStmt(Call(Var(id_f), <<NumLit(0)>>))>>,
      <<Visit>>>>

HandlerProgram(fb, hb) ==
    Prog(GlobalV,
         (id_f :> FuncNode(<<id_c>>, HandlerBodies[fb]))
             @@ (id_h :> FuncNode(<<>>, HelperBodies[hb])),
         <<id_f, id_h>>, id_g :> GridContainer(<<2, 2>>), <<id_g>>, id_g)

\* Two grids g and q under p, in either declaration order, naming the same
\* click handler f(c), whose body mutates the tapped cell at some depth
TwinOrders == {<<id_p, id_g, id_q>>, <<id_p, id_q, id_g>>}
TwinProgram(order, path) ==
    Prog(GlobalV, id_f :> FuncNode(<<id_c>>, <<Nest(path, Modify(Var(id_c), TextX))>>), <<id_f>>,
         (id_p :> Node(<<id_g, id_q>>)) @@ (id_g :> GridContainer(<<2, 2>>))
             @@ (id_q :> GridContainer(<<1, 2>>)),
         order, id_p)

GenProgram(prog) ==
    \/ \E path \in NestPaths, k \in 1..Len(Leaves), dims \in NestDims :
          prog = NestProgram(path, Leaves[k], dims)
    \/ \E rc \in (1..MaxDim) \X (1..MaxDim), xy \in (0..(MaxDim - 1)) \X (0..(MaxDim - 1)) :
          prog = GridProgram(rc, xy)
    \/ \E path \in SeqsUpTo({"then", "else", "body"}, 1), k \in 1..Len(CallSites) :
          prog = CallProgram(path, CallSites[k])
    \/ \E path \in NestPaths, k \in 1..Len(WaitSites) :
          prog = WaitProgram(path, WaitSites[k])
    \/ \E repeat_expr \in RepeatArrays : prog = RepeatProgram(repeat_expr)
    \/ prog = RepeatProgram(NumLit(3))
    \/ prog = RepeatProgram(Var(id_v))
    \/ \E picked \in LiftChoices : prog = LiftProgram(picked)
    \/ \E ix \in DeclBodies, nested \in BOOLEAN : prog = DeclProgram(ix, nested)
    \/ \E inner \in 0..Len(InnerVars), first \in BOOLEAN : prog = LoopProgram(inner, first)
    \/ \E fb \in 1..Len(HandlerBodies), hb \in 1..Len(HelperBodies) :
          prog = HandlerProgram(fb, hb)
    \/ \E kp \in ChildLists, kq \in ChildLists, viaDef \in BOOLEAN, main \in {id_p, None} :
          prog = GraphProgram(kp, kq, viaDef, main)
    \/ \E order \in TwinOrders, path \in SeqsUpTo({"then", "else", "body"}, 1) :
          prog = TwinProgram(order, path)

InitGen ==
    /\ GenProgram(program)
    /\ fs = <<>>
    /\ parsed = <<>>
    /\ call_stack = <<>>
    /\ swallowed = {}
    /\ skipped = {}
    /\ tree = <<>>
    /\ imp_pc = "resolved"
    /\ LexIdle
    /\ CgIdle

NextGen ==
    \/ ParserReturn /\ UNCHANGED <<lexVars, cgVars>>
    \/ /\ \/ NewCodegen
          \/ AppWidgetState
          \/ AppWidgetFunction
          \/ AppWidgetBuild
       /\ UNCHANGED <<lexVars, impVars>>

SpecGen == InitGen /\ [][NextGen]_vars

(***************************************************************************)
(* The whole pipeline on one file: a click grid                            *)
(*     main g:                                                             *)
(*       repeat_by = [R, C]                                                *)
(*       text_content = "a"                                                *)
(*       on_click: f(index)          or      on_click = f(index)           *)
(*                                                                         *)
(*     f(c):                                                               *)
(*       if true:                                                          *)
(*         c:                                                              *)
(*           text_content = "X"                                            *)
(***************************************************************************)
InlineForm == <<":", " ">>
AssignForm == <<" ", "=", " ">>

ScenarioSource(R, C, form) ==
    <<kw_main \o <<" ">> \o id_g \o <<":">>,
      Spaces(2) \o repeat_by \o <<" ", "=", " ", "[">> \o Str(R) \o <<",", " ">>
                \o Str(C) \o <<"]">>,
      Spaces(2) \o text_content \o <<" ", "=", " ", "\"", "a", "\"">>,
      Spaces(2) \o on_click \o form \o id_f \o <<"(">> \o index \o <<")">>,
      <<>>,
      id_f \o <<"(">> \o id_c \o <<")", ":">>,
      Spaces(2) \o kw_if \o <<" ">> \o kw_true \o <<":">>,
      Spaces(4) \o id_c \o <<":">>,
      Spaces(6) \o text_content \o <<" ", "=", " ", "\"", "X", "\"">>>>

ScenarioSources ==
    {ScenarioSource(R, C, form) : R \in 1..MaxDim, C \in 1..MaxDim,
                                  form \in {InlineForm, AssignForm}}

InitScenario ==
    /\ source \in ScenarioSources
    /\ lines = <<>>
    /\ line_map = <<>>
    /\ line_num = 0
    /\ indent_stack = <<0>>
    /\ tokens = <<>>
    /\ lex_pc = "start"
    /\ ImpIdle
    /\ CgIdle

NextScenario ==
    \/ (TokStart \/ TokLine \/ TokEnd) /\ UNCHANGED <<impVars, cgVars>>
    \/ (ParseTokens \/ ResolveCall \/ ResolveReturn \/ ParserReturn)
           /\ UNCHANGED <<lexVars, cgVars>>
    \/ (NewCodegen \/ AppWidgetState \/ AppWidgetFunction \/ AppWidgetBuild)
           /\ UNCHANGED <<lexVars, impVars>>

SpecScenario == InitScenario /\ [][NextScenario]_vars

(***************************************************************************)
(* C1: once EOF has been emitted, the token stream holds as many INDENT   *)
(* tokens as DEDENT tokens.                                                *)
(***************************************************************************)
CountType(toks, type) == Cardinality({i \in 1..Len(toks) : toks[i].type = type})

C1_IndentDedentBalanced ==
    lex_pc = "done" =>
        CountType(tokens, "INDENT") = CountType(tokens, "DEDENT")

\* A finished run that opened two nested blocks and closed one by a line.
C1_Witness ==
    /\ lex_pc = "done"
    /\ CountType(tokens, "INDENT") >= 2
    /\ \E i \in 1..Len(tokens) :
          /\ tokens[i].type = "DEDENT"
          /\ \E j \in (i + 1)..Len(tokens) : tokens[j].type = "IDENTIFIER"

(***************************************************************************)
(* C2: an import with an explicit name list, one of whose names is in     *)
(* none of the three mappings of the resolved module, makes resolution    *)
(* fail: no Program is returned in which the name was silently skipped.   *)
(***************************************************************************)
C2_MissingNameRaises ==
    skipped # {} => imp_pc \notin {"resolved", "returned"}

(***************************************************************************)
(* C3: when an import's path does not exist, or the imported file fails   *)
(* to tokenize or parse, resolution fails and the compilation aborts: no  *)
(* Program is returned and no code is emitted.                            *)
(***************************************************************************)
C3_FailedImportAborts ==
    swallowed # {} => imp_pc \notin {"resolved", "returned"}

(***************************************************************************)
(* C4: after resolve_imports every name the importing file declares       *)
(* itself is still mapped to the importing file's own declaration.        *)
(***************************************************************************)
C4_OwnDeclarationsWin ==
    imp_pc \in {"resolved", "returned"} =>
        \A k \in Kinds : \A n \in DOMAIN parsed[k] :
            n \in DOMAIN program[k] /\ program[k][n] = parsed[k][n]

(***************************************************************************)
(* What the claims about the code generator speak of, read off the         *)
(* Program itself                                                          *)
(***************************************************************************)
\* Every statement of a block, at any nesting depth, in source order
RECURSIVE Flatten(_)
Flatten(stmts) ==
    IF stmts = <<>> THEN <<>>
    ELSE <<Head(stmts)>> \o Flatten(Get(Head(stmts), "then", <<>>))
             \o Flatten(Get(Head(stmts), "else", <<>>))
             \o Flatten(Get(Head(stmts), "body", <<>>))
             \o Flatten(Tail(stmts))

\* A literal array of two or three integers
IsStatic(container) ==
    /\ HasRepeatArray(container)
    /\ LET es == container.attributes[repeat_by].elements
       IN  /\ Len(es) \in {2, 3}
           /\ \A k \in 1..Len(es) :
                 /\ TypeOf(es[k]) = "literal" /\ es[k].value_type = "number"
                 /\ ~es[k].value.float

\* The repeated containers whose click handler calls fname
HandledBy(a, fname) ==
    {K \in DOMAIN a.containers :
        /\ IsStatic(a.containers[K])
        /\ on_click \in DOMAIN a.containers[K].attributes
        /\ TypeOf(a.containers[K].attributes[on_click]) = "call"
        /\ TypeOf(a.containers[K].attributes[on_click].function) = "var"
        /\ a.containers[K].attributes[on_click].function.name = fname}

\* The containers a mutation's target denotes: the cells of the container a
\* loop variable runs over, the grid a handler's first parameter is bound
\* to, the root of a member path, or the container named
TargetsOf(a, target, fname, env) ==
    IF TypeOf(target) = "member" THEN {BaseName(target)} \ {None}
    ELSE IF TypeOf(target) # "var" THEN {}
    ELSE IF target.name \in DOMAIN env THEN {env[target.name]}
    ELSE IF /\ a.functions[fname].params # <<>>
            /\ a.functions[fname].params[1] = target.name
            /\ HandledBy(a, fname) # {}
    THEN HandledBy(a, fname)
    ELSE {target.name}

\* The (container, attribute) pairs the mutations of a block target
RECURSIVE MutationTargets(_, _, _, _)
MutationTargets(a, stmts, fname, env) ==
    IF stmts = <<>> THEN {}
    ELSE LET stmt == Head(stmts)
             own == IF TypeOf(stmt) = "modify_container"
                    THEN TargetsOf(a, stmt.target, fname, env) \X AttrNames(stmt.attributes)
                    ELSE {}
             inner == IF /\ TypeOf(stmt) = "for"
                         /\ TypeOf(stmt.iterable) = "member"
                         /\ stmt.iterable.field = children
                         /\ TypeOf(stmt.iterable.object) = "var"
                      THEN (stmt.var :> stmt.iterable.object.name) @@ env
                      ELSE env
         IN  own \cup MutationTargets(a, Get(stmt, "then", <<>>), fname, env)
                 \cup MutationTargets(a, Get(stmt, "else", <<>>), fname, env)
                 \cup MutationTargets(a, Get(stmt, "body", <<>>), fname, inner)
                 \cup MutationTargets(a, Tail(stmts), fname, env)

AllMutationTargets(a) ==
    UNION {MutationTargets(a, a.functions[fn].body, fn, <<>>) : fn \in DOMAIN a.functions}

Analyzed == cg_pc \in {"analyzed", "functions", "done", "RecursionError"}
StateEmitted == cg_pc \in {"functions", "done", "RecursionError"}

\* The expressions a statement holds
StmtExprs(stmt) ==
    LET t == TypeOf(stmt) IN
    IF t = "assign" THEN <<stmt.target, stmt.value>>
    ELSE IF t = "expr_stmt" THEN <<stmt.expr>>
    ELSE IF t = "return" THEN <<stmt.value>>
    ELSE IF t = "if" THEN <<stmt.condition>>
    ELSE IF t = "for" THEN <<stmt.iterable>>
    ELSE IF t = "modify_container"
    THEN [k \in 1..Len(stmt.attributes) |-> stmt.attributes[k].value]
    ELSE <<>>

\* The expressions directly inside an expression
SubExprs(e) ==
    LET t == TypeOf(e) IN
    IF t = "binary_op" THEN <<e.left, e.right>>
    ELSE IF t = "unary_op" THEN <<e.operand>>
    ELSE IF t = "call" THEN <<e.function>> \o e.args
    ELSE IF t = "member" THEN <<e.object>>
    ELSE IF t = "index" THEN <<e.object, e.index>>
    ELSE IF t = "ternary" THEN <<e.condition, e.then, e.else>>
    ELSE IF t = "array" THEN e.elements
    ELSE IF t = "method_call" THEN <<e.object>> \o e.args
    ELSE <<>>

\* The user functions an expression calls, wherever the call stands
RECURSIVE Callees(_, _)
Callees(a, e) ==
    (IF /\ TypeOf(e) = "call" /\ TypeOf(e.function) = "var"
        /\ e.function.name \in DOMAIN a.functions
     THEN {e.function.name} ELSE {})
    \cup UNION {Callees(a, SubExprs(e)[k]) : k \in 1..Len(SubExprs(e))}

\* fname is called from the body of a different user function
CalledByOther(a, fname) ==
    \E other \in DOMAIN a.functions \ {fname} :
        \E i \in 1..Len(Flatten(a.functions[other].body)) :
            LET es == StmtExprs(Flatten(a.functions[other].body)[i])
            IN  \E k \in 1..Len(es) : fname \in Callees(a, es[k])

\* The body mutates state: an attribute mutation, or an assignment to a
\* top-level variable
Mutates(a, body) ==
    \E i \in 1..Len(Flatten(body)) :
        LET stmt == Flatten(body)[i]
        IN  \/ TypeOf(stmt) = "modify_container"
            \/ /\ TypeOf(stmt) = "assign" /\ TypeOf(stmt.target) = "var"
               /\ stmt.target.name \in DOMAIN a.variables

\* The member paths C.X{x}Y{y}.A an expression reads: <<C, A, x, y>>
RECURSIVE CellReads(_)
CellReads(e) ==
    (IF /\ TypeOf(e) = "member" /\ TypeOf(e.object) = "member"
        /\ TypeOf(e.object.object) = "var"
     THEN {<<e.object.object.name, e.field, xy[1], xy[2]>> :
              xy \in {z \in (0..MaxDim) \X (0..MaxDim) :
                         e.object.field = CellName(z[1], z[2])}}
     ELSE {})
    \cup UNION {CellReads(SubExprs(e)[k]) : k \in 1..Len(SubExprs(e))}

\* The member paths C.X{x}Y{y} a block writes attributes of: <<C, A, x, y>>
CellWrites(body) ==
    UNION {LET stmt == Flatten(body)[i]
           IN  IF /\ TypeOf(stmt) = "modify_container" /\ TypeOf(stmt.target) = "member"
                  /\ TypeOf(stmt.target.object) = "var"
               THEN {<<stmt.target.object.name, attr, xy[1], xy[2]>> :
                        attr \in AttrNames(stmt.attributes),
                        xy \in {z \in (0..MaxDim) \X (0..MaxDim) :
                                   stmt.target.field = CellName(z[1], z[2])}}
               ELSE {} : i \in 1..Len(Flatten(body))}

BodyCellReads(body) ==
    UNION {UNION {CellReads(StmtExprs(Flatten(body)[i])[k]) :
                     k \in 1..Len(StmtExprs(Flatten(body)[i]))} :
           i \in 1..Len(Flatten(body))}

\* The expressions an emitted line holds
LineExprs(line) ==
    IF line.l \in {"declare", "state_write", "comment"} THEN <<line.value>>
    ELSE IF line.l = "assign" THEN <<line.target, line.value>>
    ELSE IF line.l \in {"expr", "return"} THEN <<line.e>>
    ELSE IF line.l = "if" THEN <<line.cond>>
    ELSE IF line.l = "for_in" THEN <<line.iterable>>
    ELSE <<>>

DartSubExprs(d) ==
    IF d.d = "bin" THEN <<d.l, d.r>>
    ELSE IF d.d = "un" THEN <<d.e>>
    ELSE IF d.d = "length" THEN <<d.of>>
    ELSE IF d.d \in {"Color.fromRGBO", "Random"} THEN d.args
    ELSE IF d.d = "await" THEN <<d.seconds>>
    ELSE IF d.d = "print" THEN <<d.arg>>
    ELSE IF d.d = "call" THEN <<d.f>> \o d.args
    ELSE IF d.d = "dot" THEN <<d.obj>>
    ELSE IF d.d = "at" THEN <<d.obj, d.idx>>
    ELSE IF d.d = "cond" THEN <<d.c, d.th, d.el>>
    ELSE IF d.d = "list" THEN d.elems
    ELSE IF d.d = "method" THEN <<d.obj>> \o d.args
    ELSE <<>>

\* The list elements cname_attr[n] an emitted expression reads: <<C, A, n>>
RECURSIVE DartReads(_)
DartReads(d) ==
    (IF d.d = "state_at" /\ d.idx.d = "num"
     THEN {<<d.list[1], d.list[2], d.idx.v>>} ELSE {})
    \cup UNION {DartReads(DartSubExprs(d)[k]) : k \in 1..Len(DartSubExprs(d))}

LinesReads(ls) ==
    UNION {UNION {DartReads(LineExprs(ls[i])[k]) : k \in 1..Len(LineExprs(ls[i]))} :
           i \in 1..Len(ls)}

\* The list elements cname_attr[n] the emitted lines assign: <<C, A, n>>
LinesWrites(ls) ==
    {<<ls[i].list[1], ls[i].list[2], ls[i].idx.v>> :
        i \in {j \in 1..Len(ls) : ls[j].l = "state_write" /\ ls[j].idx.d = "num"}}

\* The emitted function opens with setState( and closes it last, once
Wrapped(ls) ==
    /\ Len(ls) >= 4
    /\ ls[2].l = "setState"
    /\ ls[Len(ls) - 1].l = "end_setState"
    /\ \A i \in 3..(Len(ls) - 2) : ls[i].l \notin {"setState", "end_setState"}

HasBoundary(ls) == \E i \in 1..Len(ls) : ls[i].l = "setState"

\* A grid: repeat_by is a literal array of exactly two integers
IsGrid(container) ==
    IsStatic(container) /\ Len(container.attributes[repeat_by].elements) = 2
Rows(container) == container.attributes[repeat_by].elements[1].value.whole
Cols(container) == container.attributes[repeat_by].elements[2].value.whole

(***************************************************************************)
(* C5: for every container C with a static repeat_by and every attribute   *)
(* A, if a mutation statement in some function body, at any nesting depth, *)
(* targets (C, A), then after analyze A is in modified_containers[C], and  *)
(* generate_app_widget declares a state list C_A of rows * columns         *)
(* elements.                                                               *)
(***************************************************************************)
C5_StateLiftSound ==
    \A ca \in (IF Analyzed THEN AllMutationTargets(self_ast) ELSE {}) :
        (ca[1] \in DOMAIN self_ast.containers /\ IsStatic(self_ast.containers[ca[1]]))
        => /\ ca[1] \in DOMAIN modified_containers
           /\ ca[2] \in modified_containers[ca[1]]
           /\ StateEmitted =>
                 \E sl \in dart.state_lists :
                    /\ sl.list = ca
                    /\ LET es == self_ast.containers[ca[1]].attributes[repeat_by].elements
                       IN  sl.filled = es[1].value.whole * es[2].value.whole

(***************************************************************************)
(* C6: for a container with repeat_by = [R, C], every member path          *)
(* container.X{x}Y{y} with 0 <= x < C and 0 <= y < R is emitted as the     *)
(* flat index y * C + x, as the target of a write and inside a read, and   *)
(* the builder emitted for the container generates exactly R * C cells.    *)
(***************************************************************************)
C6_GridIndexMapping ==
    cg_pc = "done" =>
        \A cn \in {k \in DOMAIN self_ast.containers : IsGrid(self_ast.containers[k])} :
            LET R == Rows(self_ast.containers[cn])
                C == Cols(self_ast.containers[cn])
            IN  /\ \A i \in 1..Len(self_ast.function_names) :
                      LET body == self_ast.functions[self_ast.function_names[i]].body
                      IN  /\ \A wr \in CellWrites(body) :
                                 (wr[1] = cn /\ wr[3] < C /\ wr[4] < R)
                                 => <<cn, wr[2], wr[4] * C + wr[3]>>
                                        \in LinesWrites(dart.functions[i])
                          /\ \A rd \in BodyCellReads(body) :
                                 (rd[1] = cn /\ rd[3] < C /\ rd[4] < R)
                                 => <<cn, rd[2], rd[4] * C + rd[3]>>
                                        \in LinesReads(dart.functions[i])
                /\ self_ast.main_container = cn
                   => /\ dart.build.w = "GridView.count"
                      /\ dart.build.generate = R * C
                      /\ dart.build.crossAxisCount = C

\* A 2 x 3 grid whose last cell, X2Y1, is written and read at index 5
C6_Witness ==
    /\ cg_pc = "done"
    /\ self_ast.main_container = id_g
    /\ IsGrid(self_ast.containers[id_g])
    /\ Rows(self_ast.containers[id_g]) = 2 /\ Cols(self_ast.containers[id_g]) = 3
    /\ <<id_g, text_content, 2, 1>> \in CellWrites(self_ast.functions[id_f].body)
    /\ <<id_g, text_content, 2, 1>> \in BodyCellReads(self_ast.functions[id_f].body)
    /\ <<id_g, text_content, 5>> \in LinesWrites(dart.functions[1])
    /\ <<id_g, text_content, 5>> \in LinesReads(dart.functions[1])
    /\ dart.build.generate = 6

(***************************************************************************)
(* C7: every function whose body holds a state mutation, at any nesting    *)
(* depth, and that no other user function calls is emitted with its whole  *)
(* body inside one setState.                                               *)
(***************************************************************************)
C7_MutatorsWrapped ==
    StateEmitted =>
        \A i \in 1..Len(dart.functions) :
            LET fname == self_ast.function_names[i]
            IN  (Mutates(self_ast, self_ast.functions[fname].body)
                     /\ ~CalledByOther(self_ast, fname))
                => Wrapped(dart.functions[i])

\* A handler whose only mutation lies two blocks deep, emitted wrapped
C7_Witness ==
    /\ cg_pc = "done"
    /\ Len(dart.functions) = 1
    /\ LET body == self_ast.functions[self_ast.function_names[1]].body
       IN  /\ \A k \in 1..Len(body) : TypeOf(body[k]) \notin {"assign", "modify_container"}
           /\ Mutates(self_ast, body)
           /\ ~CalledByOther(self_ast, self_ast.function_names[1])
    /\ Wrapped(dart.functions[1])
    /\ \E k \in 1..Len(dart.functions[1]) :
          dart.functions[1][k].l = "state_write" /\ dart.functions[1][k].ind = 5

(***************************************************************************)
(* C8: a function called from the body of a different user function, in    *)
(* whatever position the call stands, is marked internal and is emitted    *)
(* without a setState of its own.                                          *)
(***************************************************************************)
C8_CalleesInternal ==
    StateEmitted =>
        \A i \in 1..Len(dart.functions) :
            LET fname == self_ast.function_names[i]
            IN  CalledByOther(self_ast, fname)
                => /\ fname \in called_by_functions
                   /\ ~HasBoundary(dart.functions[i])

(***************************************************************************)
(* C9: for R, C >= 1, compiling a source whose container declares          *)
(* repeat_by = [R, C], text_content and `on_click: f(index)`, f mutating    *)
(* text_content through its first parameter, emits a text state list of    *)
(* R * C elements for the container, a builder of R * C cells whose text   *)
(* is read from that list at the cell index, and a tap handler calling f   *)
(* with the cell index.                                                    *)
(***************************************************************************)
\* What the claim asks of the output for an R x C click grid
ClickGridEmitted(R, C) ==
    /\ \E sl \in dart.state_lists :
          sl.list = <<id_g, text_content>> /\ sl.filled = R * C
    /\ dart.build.w = "GridView.count"
    /\ dart.build.generate = R * C
    /\ dart.build.cell.w = "GestureDetector"
    /\ dart.build.cell.onTap = [d |-> "closure", call |-> id_f, arg |-> index]
    /\ dart.build.cell.child.child.child.children[1].text
           = DStateAt(id_g, text_content, DName(index))

C9_ClickGridLifted ==
    \A R \in 1..MaxDim, C \in 1..MaxDim :
        (source = ScenarioSource(R, C, InlineForm) /\ lex_pc = "done")
        => /\ imp_pc \in {"idle", "parsed", "resolving", "resolved", "returned"}
           /\ cg_pc \in {"idle", "analyzed", "functions", "done"}
           /\ cg_pc = "done" => ClickGridEmitted(R, C)

(***************************************************************************)
(* C10: if the child graph of the Program's containers (children arrays    *)
(* and nested definitions) has a cycle, the pipeline stops with a fatal    *)
(* error before analysis and before any widget is generated.               *)
(***************************************************************************)
\* The containers a node refers to as children, nested definitions included
RECURSIVE ChildRefs(_, _)
ChildRefs(a, node) ==
    LET children_expr == Get(node.attributes, children, <<>>)
        named == IF TypeOf(children_expr) = "array"
                 THEN {children_expr.elements[k].name :
                          k \in {j \in 1..Len(children_expr.elements) :
                                    TypeOf(children_expr.elements[j]) = "var"}}
                 ELSE {}
        defs == Get(node, "children_def", <<>>)
    IN  (named \cap DOMAIN a.containers)
        \cup UNION {ChildRefs(a, defs[k]) : k \in 1..Len(defs)}

\* The containers reachable from those of S in one step or more
RECURSIVE Descendants(_, _, _)
Descendants(a, S, steps) ==
    LET next == UNION {ChildRefs(a, a.containers[x]) : x \in S}
    IN  IF steps = 0 THEN {} ELSE next \cup Descendants(a, next, steps - 1)

HasCycle(a) ==
    \E x \in DOMAIN a.containers :
        x \in Descendants(a, {x}, Cardinality(DOMAIN a.containers))

C10_CyclicGraphRejected ==
    (imp_pc # "idle" /\ HasCycle(program))
    => cg_pc \notin {"analyzed", "functions", "done"}

(***************************************************************************)
(* Comment stripping on its own: texts over the marker characters, one     *)
(* line of up to MaxChars characters or two lines of up to half as many.   *)
(***************************************************************************)
MarkChars == {"<", "#", ">", "a"}
StripSources ==
    {<<l>> : l \in SeqsUpTo(MarkChars, MaxChars)}
        \cup {<<l, m>> : l, m \in SeqsUpTo(MarkChars, MaxChars \div 2)}

InitStrip ==
    /\ source \in StripSources
    /\ lines = <<>>
    /\ line_map = <<>>
    /\ line_num = 0
    /\ indent_stack = <<0>>
    /\ tokens = <<>>
    /\ lex_pc = "start"
    /\ ImpIdle
    /\ CgIdle

NextStrip ==
    /\ (TokStart \/ StripAgain)
    /\ UNCHANGED <<impVars, cgVars>>

SpecStrip == InitStrip /\ [][NextStrip]_vars

(***************************************************************************)
(* C11: the text remove_comments_with_lines returns holds no `<#` and no   *)
(* `#>`, and applying remove_comments_with_lines to it returns it          *)
(* unchanged.                                                              *)
(***************************************************************************)
NoMarkers(text) ==
    \A n \in 1..Len(text) :
        ~HasMarker(text[n], "<", "#") /\ ~HasMarker(text[n], "#", ">")

C11_StripIdempotent ==
    lex_pc = "stripped_twice" => (lines = source /\ NoMarkers(source))

(***************************************************************************)
(* C12: a line whose indentation is below the top of indent_stack and,     *)
(* after the pops, is none of the widths left on the stack makes tokenize  *)
(* fail: no token stream is returned for a text with such a line.          *)
(***************************************************************************)
\* indent_stack as the for-loop finds it at line n
RECURSIVE StackBefore(_, _)
StackBefore(ls, n) ==
    IF n = 1 THEN <<0>>
    ELSE IF Strip(ls[n - 1]) = <<>> THEN StackBefore(ls, n - 1)
    ELSE StackAfter(StackBefore(ls, n - 1), LeadingBlanks(ls[n - 1]))

MismatchedDedent(ls, n) ==
    /\ Strip(ls[n]) # <<>>
    /\ LeadingBlanks(ls[n]) < Top(StackBefore(ls, n))
    /\ \A k \in 1..Len(StackBefore(ls, n)) :
          StackBefore(ls, n)[k] # LeadingBlanks(ls[n])

C12_MismatchedDedentFails ==
    (\E n \in 1..Len(lines) : MismatchedDedent(lines, n)) => lex_pc # "done"

(***************************************************************************)
(* The front end on one file of top-level declarations and imports: up to  *)
(* MaxTop lines, each a declaration with an empty body or an import of the *)
(* file "a".                                                               *)
(***************************************************************************)
MaxTop == 2

id_x == <<"x">>
id_y == <<"y">>
file_a == <<"a">>
Quoted(str) == <<"\"">> \o str \o <<"\"">>

TopLines ==
    {kw_main \o <<" ">> \o n \o <<":">> : n \in {id_x, id_y}}
        \cup {id_x \o <<":">>,
              id_y \o <<" ", "=", " ", "1">>,
              id_x \o <<"(", ")", ":">>,
              kw_import \o <<" ">> \o Quoted(file_a)}
        \cup {kw_from \o <<" ">> \o Quoted(file_a) \o <<" ">> \o kw_import \o <<" ">> \o n
                 : n \in {id_x, id_y}}

TopSources == SeqsUpTo(TopLines, MaxTop)

\* What parse returns for the file "a": its containers (each with a text),
\* possibly a variable x, possibly a main container of its own
Imported(declared, conts, main) ==
    [imports |-> <<>>,
     variables |-> [n \in declared |-> [value |-> NumLit(1)]],
     functions |-> <<>>,
     containers |-> [n \in conts |-> Container(text_content :> StrLit(<<"t">>), <<>>)],
     main_container |-> main,
     container_names |-> IF conts = {id_x, id_y} THEN <<id_x, id_y>>
                         ELSE IF conts = {} THEN <<>>
                         ELSE <<CHOOSE n \in conts : TRUE>>,
     function_names |-> <<>>]

TopFiles ==
    {[status |-> st, prog |-> Imported({}, {}, None)] : st \in {"missing", "bad"}}
        \cup {[status |-> "ok", prog |-> Imported(declared, conts, main)] :
                 declared \in SUBSET {id_x},
                 conts \in (SUBSET {id_x, id_y}) \ {{}},
                 main \in {None, id_x}}

InitTop ==
    /\ source \in TopSources
    /\ lines = <<>>
    /\ line_map = <<>>
    /\ line_num = 0
    /\ indent_stack = <<0>>
    /\ tokens = <<>>
    /\ lex_pc = "start"
    /\ fs \in {file_a :> file : file \in TopFiles}
    /\ parsed = <<>>
    /\ call_stack = <<>>
    /\ swallowed = {}
    /\ skipped = {}
    /\ program = <<>>
    /\ tree = <<>>
    /\ imp_pc = "idle"
    /\ CgIdle

NextTop ==
    \/ (TokStart \/ TokLine \/ TokEnd) /\ UNCHANGED <<impVars, cgVars>>
    \/ /\ \/ ParseTokens
          \/ ResolveCall
          \/ ImportOpenFail
          \/ ImportParseFail
          \/ ImportEnter
          \/ ImportReturn
          \/ ResolveReturn
          \/ ParserReturn
       /\ UNCHANGED <<lexVars, cgVars>>

SpecTop == InitTop /\ [][NextTop]_vars

(***************************************************************************)
(* C13: once resolve_imports has returned, a main_container that is set is *)
(* a key of the containers mapping of the Program.                         *)
(***************************************************************************)
C13_MainContainerDeclared ==
    (imp_pc \in {"resolved", "returned"} /\ program.main_container # None)
        => program.main_container \in DOMAIN program.containers

\* The main container's own entry was replaced by the imported container of
\* the same name, and the name imported next to it was added
C13_Witness ==
    /\ imp_pc = "resolved"
    /\ program.main_container = id_x
    /\ id_y \in DOMAIN program.containers
    /\ text_content \in DOMAIN program.containers[id_x].attributes

(***************************************************************************)
(* The lexer and parse on one file.  The sources are                       *)
(*   - a function f(c) with a container modification                       *)
(*         c:                                                              *)
(*           attr = value ...                                              *)
(*     in one statement position: the function body, a then-block, an      *)
(*     else-block or a for body;                                           *)
(*   - a main container g with one line `attr: expr` or `attr = expr`;     *)
(*   - a variable set to an expression with a `-` before a digit.          *)
(***************************************************************************)
Positions == {"body", "then", "else", "for"}

\* An attribute line: its name, the text of its value and the value parsed
AttrLine(name, text, value) == [name |-> name, text |-> text, value |-> value]
LineT == AttrLine(text_content, Quoted(<<"X">>), StrLit(<<"X">>))
LineV == AttrLine(visibility, kw_false, BoolLit(FALSE))
ModAttrLists == {<<LineT>>, <<LineV>>, <<LineT, LineV>>, <<LineV, LineT>>}

ModifyLines(ind, attrs) ==
    <<Spaces(ind) \o id_c \o <<":">>>>
        \o [k \in 1..Len(attrs) |->
               Spaces(ind + 2) \o attrs[k].name \o <<" ", "=", " ">> \o attrs[k].text]

StmtSource(position, attrs) ==
    <<id_f \o <<"(">> \o id_c \o <<")", ":">>>>
        \o (CASE position = "body" -> <<>>
              [] position = "then" -> <<Spaces(2) \o kw_if \o <<" ">> \o kw_true \o <<":">>>>
              [] position = "else" ->
                     <<Spaces(2) \o kw_if \o <<" ">> \o kw_true \o <<":">>,
                       Spaces(4) \o id_v \o <<" ", "=", " ", "1">>,
                       Spaces(2) \o kw_else \o <<":">>>>
              [] position = "for" ->
                     <<Spaces(2) \o kw_for \o <<" ">> \o id_n \o <<" ", "i", "n", " ">>
                                 \o id_items \o <<":">>>>)
        \o ModifyLines(IF position = "body" THEN 2 ELSE 4, attrs)

StmtSources == {StmtSource(position, attrs) : position \in Positions, attrs \in ModAttrLists}

\* The expressions written after `attr:` or `attr =`
InlineExprs == {"call", "string", "var"}
ExprText(kind) ==
    CASE kind = "call" -> id_f \o <<"(">> \o id_c \o <<")">>
      [] kind = "string" -> Quoted(<<"a">>)
      [] kind = "var" -> id_v
ExprValue(kind) ==
    CASE kind = "call" -> Call(Var(id_f), <<Var(id_c)>>)
      [] kind = "string" -> StrLit(<<"a">>)
      [] kind = "var" -> Var(id_v)

BodySource(attr, form, kind) ==
    <<kw_main \o <<" ">> \o id_g \o <<":">>,
      Spaces(2) \o attr \o form \o ExprText(kind)>>

BodySources ==
    {BodySource(attr, form, kind) : attr \in {on_click, text_content},
                                    form \in {InlineForm, AssignForm},
                                    kind \in InlineExprs}

\* The operands a `-1` is written after, and what may stand in between
Operands == {"identifier", "number", "paren", "bracket"}
OperandText(operand) ==
    CASE operand = "identifier" -> id_c
      [] operand = "number" -> <<"2">>
      [] operand = "paren" -> <<"(">> \o id_c \o <<")">>
      [] operand = "bracket" -> id_c \o <<"[", "0", "]">>
Gaps == {<<>>, <<" ">>}

MinusSource(operand, gap) ==
    <<id_v \o <<" ", "=", " ">> \o OperandText(operand) \o gap \o <<"-", "1">>>>

\* `v = -1` and `v = c - 1`: the sign of a literal, and the spaced operator
SignSource == <<id_v \o <<" ", "=", " ", "-", "1">>>>
SpacedSource == <<id_v \o <<" ", "=", " ">> \o id_c \o <<" ", "-", " ", "1">>>>

MinusSources ==
    {MinusSource(operand, gap) : operand \in Operands, gap \in Gaps}
        \cup {SignSource, SpacedSource}

ParseSources == StmtSources \cup BodySources \cup MinusSources

InitParse ==
    /\ source \in ParseSources
    /\ lines = <<>>
    /\ line_map = <<>>
    /\ line_num = 0
    /\ indent_stack = <<0>>
    /\ tokens = <<>>
    /\ lex_pc = "start"
    /\ ImpIdle
    /\ CgIdle

NextParse ==
    \/ (TokStart \/ TokLine \/ TokEnd) /\ UNCHANGED <<impVars, cgVars>>
    \/ ParseTokens /\ UNCHANGED <<lexVars, cgVars>>

SpecParse == InitParse /\ [][NextParse]_vars

(***************************************************************************)
(* C14: in the function body, in a then-block, in an else-block and in a   *)
(* for body alike, `c:` followed by an indented block of `name = expr`     *)
(* lines parses to one modify_container statement with every listed        *)
(* attribute.                                                              *)
(***************************************************************************)
StatementAt(body, position) ==
    CASE position = "body" -> body[1]
      [] position = "then" -> body[1].then[1]
      [] position = "else" -> body[1].else[1]
      [] position = "for" -> body[1].body[1]

ModifyOf(attrs) ==
    Modify(Var(id_c), [k \in 1..Len(attrs) |-> Attr(attrs[k].name, attrs[k].value)])

C14_ModifyInEveryPosition ==
    \A position \in Positions, attrs \in ModAttrLists :
        (source = StmtSource(position, attrs) /\ imp_pc # "idle")
            => /\ imp_pc = "parsed"
               /\ StatementAt(parsed.functions[id_f].body, position) = ModifyOf(attrs)

(***************************************************************************)
(* C15: in a container body the line `attr: inline_expr` records           *)
(* inline_expr as the value of attr, and attr is the only attribute the    *)
(* line gives the container.                                               *)
(***************************************************************************)
C15_InlineAttributeRecorded ==
    \A attr \in {on_click, text_content}, kind \in InlineExprs :
        (source = BodySource(attr, InlineForm, kind) /\ imp_pc # "idle")
            => /\ imp_pc = "parsed"
               /\ DOMAIN parsed.containers[id_g].attributes = {attr}
               /\ parsed.containers[id_g].attributes[attr] = ExprValue(kind)

(***************************************************************************)
(* C16: a `-` before a digit that directly follows an operand (an          *)
(* identifier, a number, a closing parenthesis or bracket), with or        *)
(* without a blank in between, is a MINUS token followed by the NUMBER 1.  *)
(***************************************************************************)
C16_MinusAfterOperand ==
    \A operand \in Operands, gap \in Gaps :
        (source = MinusSource(operand, gap) /\ lex_pc = "done")
            => /\ tokens[Len(tokens) - 3].type = "MINUS"
               /\ tokens[Len(tokens) - 2].type = "NUMBER"
               /\ NumberValue(tokens[Len(tokens) - 2].value) = Num(1)

(***************************************************************************)
(* C17: a function is emitted with a setState boundary exactly when its    *)
(* body holds an assignment to a top-level variable or a container         *)
(* modification and the function is not marked internal; a function that   *)
(* only assigns local variables or parameters has no boundary.             *)
(***************************************************************************)
C17_BoundaryIffMutation ==
    StateEmitted =>
        \A i \in 1..Len(dart.functions) :
            LET fname == self_ast.function_names[i]
            IN  HasBoundary(dart.functions[i])
                    <=> (Mutates(self_ast, self_ast.functions[fname].body)
                             /\ fname \notin called_by_functions)

(***************************************************************************)
(* C18: a function is emitted async exactly when its own body holds a call *)
(* to wait_sec, at any block depth and in any expression position; calling *)
(* a user function that waits does not make the caller async.              *)
(***************************************************************************)
\* The expression is, or holds, a call to wait_sec
RECURSIVE HoldsWait(_)
HoldsWait(e) ==
    \/ TypeOf(e) = "call" /\ TypeOf(e.function) = "var" /\ e.function.name = wait_sec
    \/ \E k \in 1..Len(SubExprs(e)) : HoldsWait(SubExprs(e)[k])

Waits(body) ==
    \E i \in 1..Len(Flatten(body)) :
        \E k \in 1..Len(StmtExprs(Flatten(body)[i])) :
            HoldsWait(StmtExprs(Flatten(body)[i])[k])

C18_AsyncIffWaits ==
    StateEmitted =>
        \A i \in 1..Len(dart.functions) :
            dart.functions[i][1].async
                <=> Waits(self_ast.functions[self_ast.function_names[i]].body)

(***************************************************************************)
(* C19: a container whose repeat_by is not an array literal of two or      *)
(* three integer literals is not entered in repeated_containers and is not *)
(* emitted as a fixed-count builder.                                       *)
(***************************************************************************)
C19_StaticGridNeedsIntegers ==
    Analyzed =>
        \A cname \in DOMAIN self_ast.containers :
            ~IsStatic(self_ast.containers[cname])
                => /\ cname \notin DOMAIN repeated_containers
                   /\ (cg_pc = "done" /\ self_ast.main_container = cname)
                          => dart.build.w # "GridView.count"

(***************************************************************************)
(* C20: in the cell the builder of a repeated container C emits, every     *)
(* attribute A that modified_containers holds for C is read from the state *)
(* list C_A at the cell index, and no other attribute is.                  *)
(***************************************************************************)
\* The cell under its GestureDetector, if it has one
CellBody(cell) == IF cell.w = "GestureDetector" THEN cell.child ELSE cell

\* The attributes the cell reads from their state list at `index`
CellStateReads(cname, cell) ==
    IF "child" \notin DOMAIN CellBody(cell) THEN {}
    ELSE LET text_widget == CellBody(cell).child.child.children[1]
         IN  {A \in {text_content, text_content_style, visibility} :
                 \E part \in {text_widget.text, text_widget.style} :
                     part = DStateAt(cname, A, DName(index))}

C20_CellReadsLiftedState ==
    (cg_pc = "done" /\ self_ast.main_container \in DOMAIN repeated_containers)
        => LET cname == self_ast.main_container
           IN  /\ dart.build.w = "GridView.count"
               /\ CellStateReads(cname, dart.build.cell)
                      = IF cname \in DOMAIN modified_containers
                        THEN modified_containers[cname] ELSE {}

(***************************************************************************)
(* C21: in the lines of one function, no assignment to a top-level         *)
(* variable or to a parameter of the function is a declaration; every      *)
(* other assigned name has exactly one declaration, which comes before     *)
(* every re-assignment of the name; and local_vars_declared holds, for     *)
(* each function, the names declared in that function alone.               *)
(***************************************************************************)
\* The names the statements of a body assign, one per assignment
AssignedNames(body) ==
    {Flatten(body)[k].target.name :
        k \in {j \in 1..Len(Flatten(body)) :
                  /\ TypeOf(Flatten(body)[j]) = "assign"
                  /\ TypeOf(Flatten(body)[j].target) = "var"}}

AssignmentsTo(body, name) ==
    {k \in 1..Len(Flatten(body)) :
        /\ TypeOf(Flatten(body)[k]) = "assign"
        /\ Flatten(body)[k].target = Var(name)}

Declarations(ls, name) == {k \in 1..Len(ls) : ls[k].l = "declare" /\ ls[k].name = name}
Reassignments(ls, name) ==
    {k \in 1..Len(ls) : ls[k].l = "assign" /\ ls[k].target = DName(name)}

C21_DeclareOncePerFunction ==
    StateEmitted =>
        \A i \in 1..Len(dart.functions) :
            LET fname == self_ast.function_names[i]
                func_node == self_ast.functions[fname]
                ls == dart.functions[i]
                locals == {name \in AssignedNames(func_node.body) :
                              /\ name \notin DOMAIN self_ast.variables
                              /\ name \notin Range(func_node.params)}
            IN  /\ \A name \in AssignedNames(func_node.body) :
                      /\ Cardinality(Declarations(ls, name)) + Cardinality(Reassignments(ls, name))
                             = Cardinality(AssignmentsTo(func_node.body, name))
                      /\ IF name \in locals
                         THEN /\ Cardinality(Declarations(ls, name)) = 1
                              /\ \A d \in Declarations(ls, name), r \in Reassignments(ls, name) :
                                    d < r
                         ELSE Declarations(ls, name) = {}
                /\ local_vars_declared[fname] = locals

\* f declared w in a then-block and re-assigned it, assigned its parameter,
\* and h, emitted after f, declared its own w
C21_Witness ==
    /\ cg_pc = "done"
    /\ Len(dart.functions) = 2
    /\ \E d \in Declarations(dart.functions[1], id_w) :
          /\ dart.functions[1][d - 1].l = "if"
          /\ \E r \in Reassignments(dart.functions[1], id_w) : d < r
    /\ Reassignments(dart.functions[1], id_c) # {}
    /\ Declarations(dart.functions[1], id_c) = {}
    /\ Declarations(dart.functions[2], id_w) # {}
    /\ local_vars_declared[id_f] = {id_w}
    /\ local_vars_declared[id_h] = {id_w}

(***************************************************************************)
(* C22: the emitter context is restored around every nested emission.      *)
(* Each step that emits a function leaves current_func and cell_var_map as *)
(* they were, the step that emits the widgets leaves in_repeat_context as  *)
(* it was, and for every for-each over the children of a repeated          *)
(* container, at any depth of any function, cell_var_map after the         *)
(* statement equals cell_var_map before it.                                *)
(***************************************************************************)
\* cell_var_map before and after each cell loop of stmts, entered under cvm
RECURSIVE LoopContexts(_, _, _)
LoopContexts(stmts, an, cvm) ==
    IF stmts = <<>> THEN <<>>
    ELSE LET stmt == Head(stmts)
             t == TypeOf(stmt)
             inside ==
                 IF t = "if"
                 THEN LoopContexts(stmt.then, an, cvm)
                          \o LoopContexts(Get(stmt, "else", <<>>), an,
                                          CellVarsAfter(stmt.then, an, cvm))
                 ELSE IF t = "for" /\ IsCellLoop(stmt, an)
                 THEN <<[var |-> stmt.var, before |-> cvm,
                         after |-> CellVarsAfter(<<stmt>>, an, cvm)]>>
                      \o LoopContexts(stmt.body, an,
                             [k \in DOMAIN cvm \cup {stmt.var} |->
                                 IF k = stmt.var
                                 THEN [c |-> stmt.iterable.object.name,
                                       idx |-> stmt.var \o Idx]
                                 ELSE cvm[k]])
                 ELSE IF t = "for" THEN LoopContexts(stmt.body, an, cvm)
                 ELSE <<>>
         IN  inside \o LoopContexts(Tail(stmts), an, CellVarsAfter(<<stmt>>, an, cvm))

SameBindings(m1, m2) == DOMAIN m1 = DOMAIN m2 /\ \A k \in DOMAIN m1 : m1[k] = m2[k]

LoopsRestore ==
    Analyzed =>
        \A fname \in DOMAIN self_ast.functions :
            \A k \in 1..Len(LoopContexts(self_ast.functions[fname].body, An, cell_var_map)) :
                LET ctx == LoopContexts(self_ast.functions[fname].body, An, cell_var_map)[k]
                IN  SameBindings(ctx.before, ctx.after)

C22_ContextRestored ==
    /\ [][cg_pc = "functions" =>
             /\ current_func' = current_func
             /\ SameBindings(cell_var_map', cell_var_map)
             /\ in_repeat_context' = in_repeat_context]_vars
    /\ []LoopsRestore

\* f has been emitted with a cell loop nested in a cell loop under the same
\* variable, and the cell widget of the grid has been emitted
C22_Witness ==
    /\ cg_pc = "done"
    /\ dart.build.w # "Text"
    /\ id_g \in DOMAIN An.repeated_containers
    /\ self_ast.function_names = <<id_f>>
    /\ \E k \in 1..Len(LoopContexts(self_ast.functions[id_f].body, An, cell_var_map)) :
          LET ctx == LoopContexts(self_ast.functions[id_f].body, An, cell_var_map)[k]
          IN  /\ ctx.var \in DOMAIN ctx.before
              /\ ctx.var \in DOMAIN ctx.after
    /\ \E k \in 1..Len(dart.functions[1]) : dart.functions[1][k].l = "for_index"

(***************************************************************************)
(* C23: when a nested resolve_imports returns to an import with an         *)
(* explicit name list, each listed name that the resolved module holds is  *)
(* mapped, in the first of variables, functions, containers that holds it, *)
(* to the module's declaration, and in the other two mappings of the       *)
(* importing Program the name is as it was before the merge.               *)
(***************************************************************************)
KindOrder == <<"variables", "functions", "containers">>

\* The first mapping of the module that holds the name, 0 if none does
FirstKind(imported_ast, n) ==
    IF \E k \in 1..3 : n \in DOMAIN imported_ast[KindOrder[k]]
    THEN CHOOSE k \in 1..3 :
            /\ n \in DOMAIN imported_ast[KindOrder[k]]
            /\ \A j \in 1..(k - 1) : n \notin DOMAIN imported_ast[KindOrder[j]]
    ELSE 0

SameFor(n, m1, m2) ==
    /\ n \in DOMAIN m1 <=> n \in DOMAIN m2
    /\ n \in DOMAIN m1 => m1[n] = m2[n]

C23_ListedNameMergedOnce ==
    [][(/\ imp_pc = "resolving"
        /\ Len(call_stack) >= 2
        /\ Len(call_stack') = Len(call_stack) - 1
        /\ call_stack[Len(call_stack) - 1].ast.imports[call_stack[Len(call_stack) - 1].i].items
               # Wildcard)
       => LET imported_ast == TopFrame.ast
              caller == call_stack[Len(call_stack) - 1]
              merged == call_stack'[Len(call_stack')].ast
          IN  \A n \in Range(caller.ast.imports[caller.i].items) :
                  \A k \in 1..3 :
                      IF k = FirstKind(imported_ast, n)
                      THEN /\ n \in DOMAIN merged[KindOrder[k]]
                           /\ merged[KindOrder[k]][n] = imported_ast[KindOrder[k]][n]
                      ELSE SameFor(n, merged[KindOrder[k]], caller.ast[KindOrder[k]])]_vars

\* The root file declares the function x and imports x by name from a, which
\* declares the container x and took the variable x from b: the root Program
\* has the variable x of b, its own function x and no container x
C23_Witness ==
    /\ imp_pc = "resolved"
    /\ Len(parsed.imports) = 1
    /\ parsed.imports[1].items # Wildcard
    /\ "x" \in Range(parsed.imports[1].items)
    /\ "x" \in DOMAIN parsed.functions
    /\ "x" \in DOMAIN fs.a.prog.containers
    /\ fs.a.status = "ok"
    /\ Len(fs.a.prog.imports) = 1
    /\ fs.a.prog.imports[1].items = Wildcard
    /\ "x" \in DOMAIN program.variables
    /\ program.variables["x"] = "b"
    /\ program.functions["x"] = "main"
    /\ "x" \notin DOMAIN program.containers

(***************************************************************************)
(* Texts with comments: line k is written with the k-th letter alone, so   *)
(* that a token tells the line its text stands on.  A line is blank, the   *)
(* letter, an inline comment followed by the letter, the letter followed   *)
(* by the start of a block comment, the end of a block comment followed by *)
(* the letter, or the letter indented.                                     *)
(***************************************************************************)
LineLetters == <<"a", "b", "c", "d", "e", "f", "g", "h">>
Shapes == 1..6
ShapedLine(shape, x) ==
    IF shape = 1 THEN <<>>
    ELSE IF shape = 2 THEN <<x>>
    ELSE IF shape = 3 THEN <<"<", "#", x, "#", ">", x>>
    ELSE IF shape = 4 THEN <<x, "<", "#">>
    ELSE IF shape = 5 THEN <<"#", ">", x>>
    ELSE <<" ", x>>

CommentSources ==
    {[k \in 1..Len(shapes) |-> ShapedLine(shapes[k], LineLetters[k])] :
        shapes \in SeqsUpTo(Shapes, MaxLines)}

InitComment ==
    /\ source \in CommentSources
    /\ lines = <<>>
    /\ line_map = <<>>
    /\ line_num = 0
    /\ indent_stack = <<0>>
    /\ tokens = <<>>
    /\ lex_pc = "start"
    /\ ImpIdle
    /\ CgIdle

NextComment ==
    /\ (TokStart \/ TokLine \/ TokEnd)
    /\ UNCHANGED <<impVars, cgVars>>

SpecComment == InitComment /\ [][NextComment]_vars

(***************************************************************************)
(* C24: the stripped text has as many lines as the source, and every token *)
(* carries the number of a line of the source; a token that has a text     *)
(* carries the number of the source line on which that text stands.        *)
(***************************************************************************)
Occurs(text, line) ==
    \E i \in 1..(Len(line) - Len(text) + 1) : SubSeq(line, i, i + Len(text) - 1) = text

C24_LineNumbersKept ==
    lex_pc \in {"loop", "done"} =>
        /\ Len(lines) = Len(source)
        /\ \A i \in 1..Len(tokens) :
              /\ source # <<>> => tokens[i].line \in 1..Len(source)
              /\ tokens[i].type \notin {"INDENT", "DEDENT", "NEWLINE", "EOF"} =>
                    Occurs(tokens[i].value, source[tokens[i].line])

\* A block comment opened on line 1 and closed on line 2, with text on both
\* lines, and the token of line 3 numbered 3
C24_Witness ==
    /\ lex_pc = "done"
    /\ Len(source) = 3
    /\ source[1] = ShapedLine(4, "a")
    /\ source[2] = ShapedLine(5, "b")
    /\ \E i \in 1..Len(tokens) :
          /\ tokens[i].type = "IDENTIFIER"
          /\ tokens[i].value = <<"c">>
          /\ tokens[i].line = 3
    /\ \A i \in 1..Len(tokens) : tokens[i].line = 3

(***************************************************************************)
(* C25: every indexed state access in the emitted functions, C_A[i] as the *)
(* target of a write or as a read inside an expression, names a state list *)
(* that generate_app_widget declared.                                      *)
(***************************************************************************)
\* The state lists an emitted expression indexes
RECURSIVE DartLists(_)
DartLists(d) ==
    (IF d.d = "state_at" THEN {d.list} ELSE {})
    \cup UNION {DartLists(DartSubExprs(d)[k]) : k \in 1..Len(DartSubExprs(d))}

\* The state lists the emitted lines index, as a target or in an expression
LinesLists(ls) ==
    {ls[i].list : i \in {j \in 1..Len(ls) : ls[j].l = "state_write"}}
    \cup UNION {UNION {DartLists(LineExprs(ls[i])[k]) : k \in 1..Len(LineExprs(ls[i]))} :
                i \in 1..Len(ls)}

C25_AccessesDeclared ==
    cg_pc = "done" =>
        \A i \in 1..Len(dart.functions) :
            \A list \in LinesLists(dart.functions[i]) :
                \E sl \in dart.state_lists : sl.list = list

(***************************************************************************)
(* C26: for every function the UI invokes as an event handler, no function *)
(* that mutates state can be reached from it, through zero or more calls,  *)
(* along functions that are all emitted without a setState: every mutation *)
(* a tap executes lies inside at least one emitted boundary.               *)
(***************************************************************************)
\* The functions named by an on_click of a container
UIHandlers(a) ==
    {a.containers[K].attributes[on_click].function.name :
        K \in {N \in DOMAIN a.containers :
                  /\ on_click \in DOMAIN a.containers[N].attributes
                  /\ TypeOf(a.containers[N].attributes[on_click]) = "call"
                  /\ TypeOf(a.containers[N].attributes[on_click].function) = "var"
                  /\ a.containers[N].attributes[on_click].function.name
                         \in DOMAIN a.functions}}

\* The user functions the body of fname calls
CalledFrom(a, fname) ==
    UNION {UNION {Callees(a, StmtExprs(Flatten(a.functions[fname].body)[i])[k]) :
                     k \in 1..Len(StmtExprs(Flatten(a.functions[fname].body)[i]))} :
           i \in 1..Len(Flatten(a.functions[fname].body))}

EmittedOf(fname) ==
    dart.functions[CHOOSE i \in 1..Len(self_ast.function_names) :
                       self_ast.function_names[i] = fname]

\* The functions whose bodies run outside every boundary when fname is
\* invoked, following at most n calls
RECURSIVE Exposed(_, _)
Exposed(fname, n) ==
    IF HasBoundary(EmittedOf(fname)) THEN {}
    ELSE {fname} \cup (IF n = 0 THEN {}
                       ELSE UNION {Exposed(g, n - 1) : g \in CalledFrom(self_ast, fname)})

C26_HandlerMutationsCommitted ==
    cg_pc = "done" =>
        \A f \in UIHandlers(self_ast) :
            \A g \in Exposed(f, Cardinality(DOMAIN self_ast.functions)) :
                ~Mutates(self_ast, self_ast.functions[g].body)

(***************************************************************************)
(* parse on token streams of any shape, its top-level loop taken one turn  *)
(* at a time: while the loop runs, `parsed` holds the Program built so far *)
(* and pos[0].  A stream is a prefix that leads into one of the loops of   *)
(* parse, then up to MaxTail tokens of any kind, then EOF.                 *)
(***************************************************************************)
TokenOf(kind) ==
    IF kind = "a" THEN Tok("IDENTIFIER", <<"a">>, 1)
    ELSE IF kind = "if" THEN Tok("KEYWORD", kw_if, 1)
    ELSE Tok(kind, <<>>, 1)

LoopPrefixes ==
    {<<>>,
     <<"a", "COLON", "NEWLINE", "INDENT">>,
     <<"a", "LPAREN">>,
     <<"a", "LPAREN", "RPAREN", "COLON", "NEWLINE", "INDENT">>,
     <<"if", "a", "COLON", "NEWLINE", "INDENT">>,
     <<"a", "ASSIGN", "a", "LPAREN">>,
     <<"a", "ASSIGN", "LBRACKET">>,
     <<"a", "ASSIGN", "LBRACE">>,
     <<"a", "ASSIGN", "LBRACE", "a", "COLON">>}

\* The tokens after the prefix open no bracket and no conditional: the
\* nesting of a stream is that of its prefix
TailKinds ==
    {"a", "NEWLINE", "INDENT", "DEDENT", "COLON", "ASSIGN", "COMMA", "DOT",
     "RPAREN", "RBRACKET", "RBRACE"}

TokenStreams ==
    {[k \in 1..(Len(prefix) + Len(tail) + 1) |->
         IF k <= Len(prefix) THEN TokenOf(prefix[k])
         ELSE IF k <= Len(prefix) + Len(tail) THEN TokenOf(tail[k - Len(prefix)])
         ELSE TokenOf("EOF")] :
        prefix \in LoopPrefixes, tail \in SeqsUpTo(TailKinds, MaxTail)}

InitLoop ==
    /\ tokens \in TokenStreams
    /\ source = <<>>
    /\ lines = <<>>
    /\ line_map = <<>>
    /\ line_num = 0
    /\ indent_stack = <<0>>
    /\ lex_pc = "done"
    /\ ImpIdle
    /\ CgIdle

\* pos = [0]; ast = {...}; skip_newlines()
ParseBegin ==
    /\ lex_pc = "done"
    /\ imp_pc = "idle"
    /\ parsed' = Parsed(EmptyAst, skip_newlines(tokens, 1))
    /\ imp_pc' = "parsing"
    /\ UNCHANGED <<tree, fs, call_stack, swallowed, skipped, program>>

\* One turn of `while peek()['type'] != 'EOF'`
ParseTurn ==
    /\ imp_pc = "parsing"
    /\ peek_type(tokens, parsed.pos) # "EOF"
    /\ \E declared \in {ParseDeclaration(tokens, parsed.pos, parsed.node)} :
          IF Raised(declared)
          THEN imp_pc' = "SyntaxError" /\ parsed' = parsed
          ELSE imp_pc' = imp_pc /\ parsed' = declared
    /\ UNCHANGED <<tree, fs, call_stack, swallowed, skipped, program>>

\* return ast
ParseEnd ==
    /\ imp_pc = "parsing"
    /\ peek_type(tokens, parsed.pos) = "EOF"
    /\ parsed' = parsed.node
    /\ imp_pc' = "parsed"
    /\ UNCHANGED <<tree, fs, call_stack, swallowed, skipped, program>>

NextLoop ==
    /\ (ParseBegin \/ ParseTurn \/ ParseEnd)
    /\ UNCHANGED <<lexVars, cgVars>>

\* parse is one sequential call: a turn that can be taken is taken
SpecLoop == InitLoop /\ [][NextLoop]_vars /\ WF_vars(NextLoop)

(***************************************************************************)
(* C27: parse terminates.  Every turn of the top-level loop moves pos[0]   *)
(* forward or raises SyntaxError; at every position of the stream an       *)
(* expression, a statement of a function-body loop at any block depth and  *)
(* a container body end behind their first token or raise, which is what   *)
(* each turn of the argument, array, object, body and container loops      *)
(* consumes; and parse ends by returning a Program or by raising.          *)
(***************************************************************************)
Forward(result, pos) == Raised(result) \/ result.pos > pos

\* Read off the stream once, before parse starts on it
InnerProgress ==
    imp_pc = "idle" =>
        \A pos \in 1..Len(tokens) :
            /\ Forward(parse_expression(tokens, pos), pos)
            /\ peek_type(tokens, pos) \notin {"DEDENT", "EOF", "NEWLINE"} =>
                  \A depth \in 0..3 : Forward(ParseStatement(tokens, pos, depth), pos)
            /\ peek_type(tokens, pos) = "INDENT" =>
                  Forward(parse_container_body(tokens, pos), pos)

C27_ParseTerminates ==
    /\ [][(imp_pc = "parsing" /\ imp_pc' = "parsing") => parsed'.pos > parsed.pos]_vars
    /\ []InnerProgress
    /\ <>(imp_pc \in {"parsed", "SyntaxError"})

\* parse returned a Program with a function whose body loop took a statement
C27_Witness ==
    /\ imp_pc = "parsed"
    /\ Len(tokens) > 7
    /\ <<"a">> \in DOMAIN parsed.functions
    /\ parsed.functions[<<"a">>].body # <<>>

(***************************************************************************)
(* Import cycles: the files "a" and "b" import from themselves and from    *)
(* each other, the root file imports from "a".                             *)
(***************************************************************************)
CycleNodes(sources) ==
    {[source |-> f, items |-> it] : f \in sources, it \in {Wildcard, <<"x">>}}

CycleA == {[status |-> "ok", prog |-> ProgramOf({<<"variables", "x">>}, "a", imps)] :
              imps \in SeqsUpTo(CycleNodes({"a", "b"}), MaxCycle) \ {<<>>}}

CycleB == {[status |-> "ok", prog |-> ProgramOf({<<"functions", "y">>}, "b", imps)] :
              imps \in SeqsUpTo(CycleNodes({"a", "b"}), 1)}

CycleRoots == {ProgramOf({}, "main", <<node>>) : node \in CycleNodes({"a"})}

InitCycle ==
    /\ fs \in [a : CycleA, b : CycleB]
    /\ parsed \in CycleRoots
    /\ call_stack = <<>>
    /\ swallowed = {}
    /\ skipped = {}
    /\ program = <<>>
    /\ tree = <<>>
    /\ imp_pc = "parsed"
    /\ LexIdle
    /\ CgIdle

NextCycle ==
    /\ \/ ResolveCall
       \/ ImportEnter
       \/ ImportOverflow
       \/ ImportReturn
       \/ ResolveReturn
    /\ UNCHANGED <<lexVars, cgVars>>

SpecCycle == InitCycle /\ [][NextCycle]_vars /\ WF_vars(NextCycle)

C28_ReturnsUnderLimit == <>(imp_pc = "resolved")

(***************************************************************************)
(* C29: for every repeated container whose click handler is the user       *)
(* function f, the state lists the emitted f writes at the index of its    *)
(* first parameter are lists of that container: a tap on one of its cells  *)
(* writes to no list of another container.                                 *)
(***************************************************************************)
\* The containers whose lists the emitted lines write at the index idx
WrittenAt(ls, idx) ==
    {ls[i].list[1] : i \in {j \in 1..Len(ls) : ls[j].l = "state_write" /\ ls[j].idx = idx}}

C29_TapWritesOwnLists ==
    cg_pc = "done" =>
        \A G \in DOMAIN repeated_containers :
            LET fname == HandlerOf(self_ast, G)
            IN  fname # None =>
                    WrittenAt(EmittedOf(fname),
                              DName(self_ast.functions[fname].params[1])) \subseteq {G}

(***************************************************************************)
(* C30: at every point of tokenize the indentation stack has 0 at its      *)
(* bottom and increases strictly from bottom to top, and the INDENT tokens *)
(* emitted so far are as many more than the DEDENT tokens emitted so far   *)
(* as the stack is deeper than one.                                        *)
(***************************************************************************)
StrictlyIncreasing(stack) ==
    \A i \in 1..(Len(stack) - 1) : stack[i] < stack[i + 1]

C30_IndentStackShape ==
    /\ indent_stack # <<>>
    /\ indent_stack[1] = 0
    /\ StrictlyIncreasing(indent_stack)
    /\ CountType(tokens, "INDENT") - CountType(tokens, "DEDENT") = Len(indent_stack) - 1

\* In the middle of a run: the line just read left a block for a width that
\* was not on the stack.
C30_Witness ==
    /\ lex_pc = "loop"
    /\ line_num \in 2..Len(lines)
    /\ CountType(tokens, "INDENT") >= 1
    /\ CountType(tokens, "DEDENT") >= 1
    /\ Strip(lines[line_num]) # <<>>
    /\ LeadingBlanks(lines[line_num]) > 0
    /\ LeadingBlanks(lines[line_num]) \notin Range(indent_stack)

====
